---------------------------- MODULE Spec2Model ----------------------------
(***************************************************************************)
(* Model of the GitHub PR comment tool: the comment classifier             *)
(* (GitHubDataFetcher.isCommentActionable), the cache refresh              *)
(* (GitHubDataFetcher.fetchAllData and the functions it calls) and the     *)
(* two cache files pr-data.json and last-update.json that the data-fetcher *)
(* process and the web-server process share.                               *)
(*                                                                         *)
(* Text.  A comment body is a sequence of tokens.  A token is a maximal    *)
(* run of word characters (a JavaScript \w run) or the single character    *)
(* "?"; two neighbouring word tokens are separated by exactly one blank.   *)
(* Every pattern of the classifier is \b(alt1|alt2|...)\b or \?, so a      *)
(* pattern matches exactly when one of its alternatives occurs as a run of *)
(* consecutive tokens.                                                     *)
(*                                                                         *)
(* Time.  Timestamps are integers counting seconds; the code counts        *)
(* milliseconds and stores ISO-8601 strings, an order-preserving encoding. *)
(***************************************************************************)
EXTENDS Integers, Sequences, FiniteSets, TLC

\* ------------------------------------------------------------------ bounds
MaxBodyLen == 3

\* ------------------------------------------------------------- classifier
\* the absent body (null or undefined): a value that no text equals
Null == << "(null)" >>

\* tokens of the bodies that are classified; the first four carry capitals
Vocab ==
  { "Fix", "WHY", "Should", "Please",
    "broken", "test", "consider", "could", "you", "what", "?",
    "add", "need", "to", "lgtm", "fixed" }

\* String.prototype.toLowerCase, token by token
toLowerCaseTok(t) ==
  CASE t = "Fix"    -> "fix"
    [] t = "WHY"    -> "why"
    [] t = "Should" -> "should"
    [] t = "Please" -> "please"
    [] OTHER        -> t

toLowerCase(s) == [i \in 1..Len(s) |-> toLowerCaseTok(s[i])]

\* a pattern is the set of its alternatives, each a sequence of tokens
highSeverityPatterns ==
  << { <<"fix">>, <<"error">>, <<"bug">>, <<"broken">>, <<"issue">>,
       <<"problem">>, <<"wrong">> },
     { <<"security">>, <<"vulnerability">>, <<"exploit">>, <<"dangerous">> },
     { <<"performance">>, <<"slow">>, <<"inefficient">>, <<"optimize">> },
     { <<"memory", "leak">>, <<"deadlock">>, <<"race", "condition">> } >>

mediumSeverityPatterns ==
  << { <<"should">>, <<"must">>, <<"need", "to">>, <<"have", "to">>,
       <<"required">> },
     { <<"refactor">>, <<"restructure">>, <<"reorganize">>, <<"cleanup">> },
     { <<"test">>, <<"testing">>, <<"unit", "test">>,
       <<"integration", "test">> },
     { <<"documentation">>, <<"docs">>, <<"comment">>, <<"explain">> },
     { <<"style">>, <<"format">>, <<"convention">>, <<"standard">> } >>

lowSeverityPatterns ==
  << { <<"consider">>, <<"suggest">>, <<"might">>, <<"could">>,
       <<"perhaps">> },
     { <<"improvement">>, <<"enhancement">>, <<"better">> },
     { <<"question">>, <<"clarification">>, <<"understand">> },
     { <<"naming">>, <<"variable">>, <<"function", "name">> } >>

questionPatterns ==
  << { <<"?">> },
     { <<"why">>, <<"how">>, <<"what">>, <<"when">>, <<"where">>,
       <<"which">> },
     { <<"can", "you">>, <<"could", "you">>, <<"would", "you">> } >>

requestPatterns ==
  << { <<"please">>, <<"add">>, <<"remove">>, <<"change">>, <<"update">>,
       <<"modify">> },
     { <<"implement">>, <<"create">>, <<"build">>, <<"develop">> } >>

\* the test that finds an alternative at the start of the text only
PatternTestAtStart(pattern, body) ==
  \E alt \in pattern :
    /\ Len(alt) <= Len(body)
    /\ SubSeq(body, 1, Len(alt)) = alt

\* RegExp.prototype.test for one pattern
PatternTest(pattern, body) ==
  \E alt \in pattern :
    \E i \in 1..Len(body) :
      /\ i + Len(alt) - 1 <= Len(body)
      /\ SubSeq(body, i, i + Len(alt) - 1) = alt

\* the loop that tests the first pattern of the group only
AnyPatternFirstOnly(patterns, body) == PatternTest(patterns[1], body)

\* for (const pattern of patterns) if (pattern.test(body)) return ...
AnyPattern(patterns, body) ==
  \E k \in 1..Len(patterns) : PatternTest(patterns[k], body)

NotActionable == [actionable |-> FALSE]

Verdict(type, severity) ==
  [actionable |-> TRUE, type |-> type, severity |-> severity]

\* isCommentActionable with the question group tested before the medium group
isCommentActionableQuestionFirst(commentBody) ==
  IF commentBody = Null \/ commentBody = <<>>
  THEN NotActionable
  ELSE LET body == toLowerCase(commentBody) IN
       IF AnyPattern(highSeverityPatterns, body)
       THEN Verdict("fix_required", "high")
       ELSE IF AnyPattern(questionPatterns, body)
       THEN Verdict("question", "medium")
       ELSE IF AnyPattern(mediumSeverityPatterns, body)
       THEN Verdict("improvement_needed", "medium")
       ELSE IF AnyPattern(lowSeverityPatterns, body)
       THEN Verdict("suggestion", "low")
       ELSE IF AnyPattern(requestPatterns, body)
       THEN Verdict("request", "medium")
       ELSE NotActionable

isCommentActionable(commentBody) ==
  IF commentBody = Null \/ commentBody = <<>>
  THEN NotActionable
  ELSE LET body == toLowerCase(commentBody) IN
       IF AnyPattern(highSeverityPatterns, body)
       THEN Verdict("fix_required", "high")
       ELSE IF AnyPattern(mediumSeverityPatterns, body)
       THEN Verdict("improvement_needed", "medium")
       ELSE IF AnyPattern(lowSeverityPatterns, body)
       THEN Verdict("suggestion", "low")
       ELSE IF AnyPattern(questionPatterns, body)
       THEN Verdict("question", "medium")
       ELSE IF AnyPattern(requestPatterns, body)
       THEN Verdict("request", "medium")
       ELSE NotActionable


\* ------------------------------------------- the classifier of the server
\* isCommentActionable of github-server.js, with its own pattern tables
server_highSeverityPatterns ==
  << { <<"fix">>, <<"error">>, <<"bug">>, <<"broken">>, <<"issue">>,
       <<"problem">>, <<"wrong">> },
     { <<"security">>, <<"vulnerability">>, <<"exploit">>, <<"dangerous">> },
     { <<"performance">>, <<"slow">>, <<"inefficient">>, <<"optimize">> },
     { <<"memory", "leak">>, <<"deadlock">>, <<"race", "condition">> } >>

server_mediumSeverityPatterns ==
  << { <<"should">>, <<"must">>, <<"need", "to">>, <<"have", "to">>,
       <<"required">> },
     { <<"refactor">>, <<"restructure">>, <<"reorganize">>, <<"cleanup">> },
     { <<"test">>, <<"testing">>, <<"unit", "test">>,
       <<"integration", "test">> },
     { <<"documentation">>, <<"docs">>, <<"comment">>, <<"explain">> },
     { <<"style">>, <<"format">>, <<"convention">>, <<"standard">> } >>

server_lowSeverityPatterns ==
  << { <<"consider">>, <<"suggest">>, <<"might">>, <<"could">>,
       <<"perhaps">> },
     { <<"improvement">>, <<"enhancement">>, <<"better">> },
     { <<"question">>, <<"clarification">>, <<"understand">> },
     { <<"naming">>, <<"variable">>, <<"function", "name">> } >>

server_questionPatterns ==
  << { <<"?">> },
     { <<"why">>, <<"how">>, <<"what">>, <<"when">>, <<"where">>,
       <<"which">> },
     { <<"can", "you">>, <<"could", "you">>, <<"would", "you">> } >>

server_requestPatterns ==
  << { <<"please">>, <<"add">>, <<"remove">>, <<"change">>, <<"update">>,
       <<"modify">> },
     { <<"implement">>, <<"create">>, <<"build">>, <<"develop">> } >>

\* the server's classifier without its loop over the request patterns
server_isCommentActionableNoRequest(commentBody) ==
  IF commentBody = Null \/ commentBody = <<>>
  THEN NotActionable
  ELSE LET body == toLowerCase(commentBody) IN
       IF AnyPattern(server_highSeverityPatterns, body)
       THEN Verdict("fix_required", "high")
       ELSE IF AnyPattern(server_mediumSeverityPatterns, body)
       THEN Verdict("improvement_needed", "medium")
       ELSE IF AnyPattern(server_lowSeverityPatterns, body)
       THEN Verdict("suggestion", "low")
       ELSE IF AnyPattern(server_questionPatterns, body)
       THEN Verdict("question", "medium")
       ELSE NotActionable

server_isCommentActionable(commentBody) ==
  IF commentBody = Null \/ commentBody = <<>>
  THEN NotActionable
  ELSE LET body == toLowerCase(commentBody) IN
       IF AnyPattern(server_highSeverityPatterns, body)
       THEN Verdict("fix_required", "high")
       ELSE IF AnyPattern(server_mediumSeverityPatterns, body)
       THEN Verdict("improvement_needed", "medium")
       ELSE IF AnyPattern(server_lowSeverityPatterns, body)
       THEN Verdict("suggestion", "low")
       ELSE IF AnyPattern(server_questionPatterns, body)
       THEN Verdict("question", "medium")
       ELSE IF AnyPattern(server_requestPatterns, body)
       THEN Verdict("request", "medium")
       ELSE NotActionable

\* every alternative of every pattern of either classifier, as a body
KeywordBodies ==
  UNION { UNION { table[k] : k \in 1..Len(table) } :
          table \in { highSeverityPatterns, mediumSeverityPatterns,
                      lowSeverityPatterns, questionPatterns,
                      requestPatterns,
                      server_highSeverityPatterns,
                      server_mediumSeverityPatterns,
                      server_lowSeverityPatterns, server_questionPatterns,
                      server_requestPatterns } }

\* ------------------------------------------------------------------ bounds
MaxPRs == 2
MaxTicks == 1
MaxRunMinutes == 185
MaxRefreshMinutes == 2
MaxCalls == 3
MaxInvocations == 3
MaxPosted == 2
MaxIssues == 2
MaxAnalysedPRs == 2

\* ------------------------------------------------- what GitHub can answer
ThirtyDays == 30 * 24 * 60 * 60

\* gh pr list ... --limit 50
PrListLimit == 50

\* gh pr list ... --limit 100, in the server's route
server_PrListLimit == 100

reposToMonitor == << "h1-aot/aot-base", "ppaul-h-aot/MRToolGH" >>

RepoNames == { reposToMonitor[i] : i \in 1..Len(reposToMonitor) }

\* the two halves of an owner/name identifier
OwnerOf(repoName) ==
  IF repoName = "h1-aot/aot-base" THEN "h1-aot" ELSE "ppaul-h-aot"

NameOf(repoName) ==
  IF repoName = "h1-aot/aot-base" THEN "aot-base" ELSE "MRToolGH"

\* `${owner}/${repo}`
FullName(owner, name) ==
  CHOOSE r \in RepoNames : OwnerOf(r) = owner /\ NameOf(r) = name

\* line-level review comments, as gh api .../pulls/N/comments lists them
rcHigh == [id |-> 11, body |-> <<"broken">>,
           user |-> [login |-> "alice"], created_at |-> 0]
rcNone == [id |-> 12, body |-> <<"lgtm">>,
           user |-> [login |-> "bob"], created_at |-> 0]
\* general comments, as gh pr view --json comments lists them
gcLow == [id |-> 21, body |-> <<"consider">>,
          author |-> [login |-> "bob"], createdAt |-> 0]
gcQuestion == [id |-> 22, body |-> <<"what", "?">>,
               author |-> [login |-> "alice"], createdAt |-> 0]
\* reviews, as gh api .../pulls/N/reviews lists them
rvChanges == [id |-> 31, body |-> <<"Should", "test">>,
              state |-> "CHANGES_REQUESTED",
              user |-> [login |-> "carol"], submitted_at |-> 0]
rvCommented == [id |-> 32, body |-> <<"broken">>, state |-> "COMMENTED",
                user |-> [login |-> "carol"], submitted_at |-> 0]
rvApproved == [id |-> 33, body |-> <<>>, state |-> "APPROVED",
               user |-> [login |-> "alice"], submitted_at |-> 0]
rvLgtm == [id |-> 34, body |-> <<"lgtm">>, state |-> "APPROVED",
           user |-> [login |-> "bob"], submitted_at |-> 0]

\* the pull requests a repository can hold, by number
PullRequest(n) ==
  CASE n = 1 -> \* three actionable comments, one not, one COMMENTED review
         [number |-> 1, createdAt |-> 0,
          reviewComments |-> <<rcHigh, rcNone>>, comments |-> <<gcLow>>,
          reviews |-> <<rvChanges, rvCommented>>]
    [] n = 2 -> \* nothing actionable
         [number |-> 2, createdAt |-> 0,
          reviewComments |-> <<rcNone>>, comments |-> <<>>,
          reviews |-> <<rvCommented, rvApproved, rvLgtm>>]
    [] n = 3 -> \* created more than 30 days before the model's first instant
         [number |-> 3, createdAt |-> (0 - ThirtyDays) - 1,
          reviewComments |-> <<rcHigh>>, comments |-> <<>>,
          reviews |-> <<>>]
    [] n = 4 -> \* created exactly 30 days before the model's first instant
         [number |-> 4, createdAt |-> 0 - ThirtyDays,
          reviewComments |-> <<>>, comments |-> <<gcQuestion>>,
          reviews |-> <<>>]
    [] OTHER -> \* nobody has commented yet
         [number |-> n, createdAt |-> 0,
          reviewComments |-> <<>>, comments |-> <<>>, reviews |-> <<>>]

PRNumbers == 1..4

RECURSIVE SetToSeq(_)
\* the pull requests numbered in S, in increasing order of number
SetToSeq(S) ==
  IF S = {} THEN <<>>
  ELSE LET n == CHOOSE m \in S : \A k \in S : m <= k
       IN <<PullRequest(n)>> \o SetToSeq(S \ {n})

PRLists == { SetToSeq(S) : S \in { T \in SUBSET PRNumbers :
                                      Cardinality(T) <= MaxPRs } }

PushTimes == { (0 - ThirtyDays) - 1, 0 - ThirtyDays, 0 }

RepoStates == [pushedAt : PushTimes, prs : PRLists]

\* a repository pushed to at the model's first instant, with pull request 1
DefaultRepo == [pushedAt |-> 0, prs |-> <<PullRequest(1)>>]

\* a repository in which pull request 1 was followed by as many pull requests
\* as one listing holds, newest first as gh lists them
BusyRepo ==
  [pushedAt |-> 0,
   prs |-> [k \in 1..PrListLimit |-> PullRequest(PrListLimit + 5 - k)]
             \o <<PullRequest(1)>>]

\* every state of one repository, next to the others in their default state,
\* and the busy repository next to a default one
Worlds ==
  { w \in [RepoNames -> RepoStates] :
      \E r \in RepoNames : \A q \in RepoNames \ {r} : w[q] = DefaultRepo }
  \cup { [r \in RepoNames |->
            IF r = reposToMonitor[1] THEN BusyRepo ELSE DefaultRepo] }


\* ------------------------------------------------------------------ state
Procs == { "cli", "fetcher", "server" }

VARIABLES
  body,            \* the input of the function under test: a comment's
                   \* body, or the analyses and the diff of a merge
  verdict,         \* whether it was called, and what came back
  now,             \* the wall clock, Date.now()
  gh,              \* what GitHub holds for every configured repository, or
                   \* of h1-aot for the analysis runner
  prDataFile,      \* data/pr-data.json
  lastUpdateFile,  \* data/last-update.json
  pc,              \* where each process stands in fetchAllData
  allData,         \* fetchAllData's allData, per process
  errors,          \* the catch sites' console.error lines of the last step
  writer,          \* per file, the process whose current refresh wrote it
  resp,            \* the answer the last step sent to a request
  sched            \* the local time and the scheduler of the fetcher process

vars == << body, verdict, now, gh, prDataFile, lastUpdateFile, pc, allData,
           errors, writer, resp, sched >>

\* ------------------------------------------------------- the gh CLI calls
Command(cmd, repoName, prNumber) ==
  [cmd |-> cmd, repo |-> repoName, pr |-> prNumber]

\* the pull request numbered n of a repository, as GitHub holds it
PrOf(repoName, n) ==
  LET prs == gh[repoName].prs
  IN prs[CHOOSE k \in 1..Len(prs) : prs[k].number = n]

\* the pull requests gh pr list --limit 50 prints: the first 50 of the
\* repository's, which gh holds newest first
Listed(repoName) ==
  SubSeq(gh[repoName].prs, 1,
         IF Len(gh[repoName].prs) < PrListLimit
         THEN Len(gh[repoName].prs) ELSE PrListLimit)

\* what the command prints, parsed; the fields the code never reads are left out
GhOutput(command) ==
  CASE command.cmd = "repo view" ->
         [name |-> NameOf(command.repo),
          owner |-> [login |-> OwnerOf(command.repo)],
          url |-> command.repo,
          pushedAt |-> gh[command.repo].pushedAt]
    [] command.cmd = "pr list" ->
         [k \in 1..Len(Listed(command.repo)) |->
            [number |-> Listed(command.repo)[k].number,
             createdAt |-> Listed(command.repo)[k].createdAt]]
    [] command.cmd = "api comments" ->
         PrOf(command.repo, command.pr).reviewComments
    [] command.cmd = "pr view comments" ->
         [comments |-> PrOf(command.repo, command.pr).comments]
    [] OTHER -> \* "api reviews"
         PrOf(command.repo, command.pr).reviews

\* executeGhCommand: the parsed output, or a throw when execSync fails (non-zero
\* exit, timeout, buffer overflow) or the output is no JSON; fails is the set of
\* commands that fail in this refresh
executeGhCommand(command, fails) ==
  IF command \in fails
  THEN [threw |-> TRUE, err |-> {command}]
  ELSE [threw |-> FALSE, err |-> {}, value |-> GhOutput(command)]


\* ------------------------------------------------ getRepositoriesToMonitor
\* the staleness test with its comparison turned around
HasRecentActivityReversed(pushedAt, thirtyDaysAgo) == pushedAt <= thirtyDaysAgo

\* repoData.pushedAt && new Date(repoData.pushedAt) >= thirtyDaysAgo
HasRecentActivity(pushedAt, thirtyDaysAgo) == pushedAt >= thirtyDaysAgo

\* one catch site's console.error line
LogLine(site, repoName, prNumber) ==
  [site |-> site, repo |-> repoName, pr |-> prNumber]

RECURSIVE MonitorLoop(_, _, _)
\* the for loop over reposToMonitor from index i on, at time t
MonitorLoop(i, fails, t) ==
  IF i > Len(reposToMonitor)
  THEN [repos |-> <<>>, err |-> {}, log |-> {}]
  ELSE LET repoName == reposToMonitor[i]
           repoData == executeGhCommand(Command("repo view", repoName, 0), fails)
           thirtyDaysAgo == t - ThirtyDays
           rest == MonitorLoop(i + 1, fails, t)
       IN IF repoData.threw
          THEN [repos |-> rest.repos,
                err |-> repoData.err \cup rest.err,
                log |-> {LogLine("accessing repository", repoName, 0)}
                          \cup rest.log]
          ELSE IF HasRecentActivity(repoData.value.pushedAt, thirtyDaysAgo)
          THEN [rest EXCEPT !.repos = <<repoData.value>> \o @]
          ELSE rest

getRepositoriesToMonitor(fails, t) == MonitorLoop(1, fails, t)

\* --------------------------------------------------- getActionableComments
\* the entry pushed for a line-level review comment
ReviewCommentEntry(comment, actionable) ==
  [id |-> comment.id, type |-> "review_comment",
   author |-> comment.user.login, body |-> comment.body,
   createdAt |-> comment.created_at,
   actionType |-> actionable.type, severity |-> actionable.severity]

\* the entry of a general comment under the tag of the review comments
GeneralCommentEntryMistagged(comment, actionable) ==
  [id |-> comment.id, type |-> "review_comment",
   author |-> comment.author.login, body |-> comment.body,
   createdAt |-> comment.createdAt,
   actionType |-> actionable.type, severity |-> actionable.severity]

\* the entry pushed for a general comment
GeneralCommentEntry(comment, actionable) ==
  [id |-> comment.id, type |-> "general_comment",
   author |-> comment.author.login, body |-> comment.body,
   createdAt |-> comment.createdAt,
   actionType |-> actionable.type, severity |-> actionable.severity]

\* the entry pushed for a review
ReviewEntry(review, actionable) ==
  [id |-> review.id, type |-> "review",
   author |-> review.user.login, body |-> review.body,
   createdAt |-> review.submitted_at, state |-> review.state,
   actionType |-> actionable.type, severity |-> actionable.severity]

\* the review filter without the test of the state
ReviewCountsAnyState(review) == review.body # Null /\ review.body # <<>>

\* if (review.body && review.state !== 'COMMENTED')
ReviewCounts(review) ==
  review.body # Null /\ review.body # <<>> /\ review.state # "COMMENTED"

RECURSIVE ProcessReviewComments(_)
ProcessReviewComments(reviewComments) ==
  IF reviewComments = <<>> THEN <<>>
  ELSE LET comment == Head(reviewComments)
           actionable == isCommentActionable(comment.body)
       IN (IF actionable.actionable
           THEN <<ReviewCommentEntry(comment, actionable)>> ELSE <<>>)
          \o ProcessReviewComments(Tail(reviewComments))

RECURSIVE ProcessGeneralComments(_)
ProcessGeneralComments(generalComments) ==
  IF generalComments = <<>> THEN <<>>
  ELSE LET comment == Head(generalComments)
           actionable == isCommentActionable(comment.body)
       IN (IF actionable.actionable
           THEN <<GeneralCommentEntry(comment, actionable)>> ELSE <<>>)
          \o ProcessGeneralComments(Tail(generalComments))

RECURSIVE ProcessReviews(_)
ProcessReviews(reviews) ==
  IF reviews = <<>> THEN <<>>
  ELSE LET review == Head(reviews)
           actionable == isCommentActionable(review.body)
       IN (IF ReviewCounts(review) /\ actionable.actionable
           THEN <<ReviewEntry(review, actionable)>> ELSE <<>>)
          \o ProcessReviews(Tail(reviews))

\* getActionableComments keeping what it gathered before the failing fetch
getActionableCommentsPartial(owner, repo, prNumber, fails) ==
  LET repoName == FullName(owner, repo)
      reviewComments ==
        executeGhCommand(Command("api comments", repoName, prNumber), fails)
      generalCommentsResult ==
        executeGhCommand(Command("pr view comments", repoName, prNumber), fails)
      reviews ==
        executeGhCommand(Command("api reviews", repoName, prNumber), fails)
      caught(e, gathered) ==
        [value |-> gathered, err |-> e.err,
         log |-> {LogLine("getting comments", repoName, prNumber)}]
  IN IF reviewComments.threw THEN caught(reviewComments, <<>>)
     ELSE IF generalCommentsResult.threw
     THEN caught(generalCommentsResult,
                 ProcessReviewComments(reviewComments.value))
     ELSE IF reviews.threw
     THEN caught(reviews,
                 ProcessReviewComments(reviewComments.value)
                   \o ProcessGeneralComments(
                        generalCommentsResult.value.comments))
     ELSE [value |-> ProcessReviewComments(reviewComments.value)
                       \o ProcessGeneralComments(
                            generalCommentsResult.value.comments)
                       \o ProcessReviews(reviews.value),
           err |-> {}, log |-> {}]

\* the three fetches in the order of the code; the first throw ends the try block
getActionableComments(owner, repo, prNumber, fails) ==
  LET repoName == FullName(owner, repo)
      reviewComments ==
        executeGhCommand(Command("api comments", repoName, prNumber), fails)
      generalCommentsResult ==
        executeGhCommand(Command("pr view comments", repoName, prNumber), fails)
      reviews ==
        executeGhCommand(Command("api reviews", repoName, prNumber), fails)
      caught(e) == [value |-> <<>>, err |-> e.err,
                    log |-> {LogLine("getting comments", repoName, prNumber)}]
  IN IF reviewComments.threw THEN caught(reviewComments)
     ELSE IF generalCommentsResult.threw THEN caught(generalCommentsResult)
     ELSE IF reviews.threw THEN caught(reviews)
     ELSE [value |-> ProcessReviewComments(reviewComments.value)
                       \o ProcessGeneralComments(
                            generalCommentsResult.value.comments)
                       \o ProcessReviews(reviews.value),
           err |-> {}, log |-> {}]

\* ------------------------------------------------------------ fetchAllData
\* new Date(pr.createdAt) >= new Date(thirtyDaysAgo)
IsRecentPr(createdAt, thirtyDaysAgo) == createdAt >= thirtyDaysAgo

\* the count taken on the action type in place of the severity
CountSeverityByType(actionableComments, severity) ==
  LET Is(c) == c.actionType = severity
  IN Len(SelectSeq(actionableComments, Is))

\* actionableComments.filter(c => c.severity === severity).length
CountSeverity(actionableComments, severity) ==
  LET Is(c) == c.severity = severity
  IN Len(SelectSeq(actionableComments, Is))

\* { ...pr, actionableComments, actionableCount, severityCounts }
PrEntry(pr, actionableComments) ==
  [number |-> pr.number, createdAt |-> pr.createdAt,
   actionableComments |-> actionableComments,
   actionableCount |-> Len(actionableComments),
   severityCounts |->
     [high |-> CountSeverity(actionableComments, "high"),
      medium |-> CountSeverity(actionableComments, "medium"),
      low |-> CountSeverity(actionableComments, "low")]]

\* the pull request filter with >= in place of >
KeepPrNonNegative(actionableComments) == Len(actionableComments) >= 0

\* if (actionableComments.length > 0)
KeepPr(actionableComments) == Len(actionableComments) > 0

\* if (repoData.pullRequests.length > 0)
KeepRepo(pullRequests) == Len(pullRequests) > 0

\* for (const pr of recentPrs): every pull request's comments are fetched, and
\* the pull requests that are kept are pushed in the order of the listing
PrLoop(repo, recentPrs, fails) ==
  LET processed ==
        [k \in 1..Len(recentPrs) |->
           [pr |-> recentPrs[k],
            actionableComments |->
              getActionableComments(repo.owner.login, repo.name,
                                    recentPrs[k].number, fails)]]
      Kept(e) == KeepPr(e.actionableComments.value)
      kept == SelectSeq(processed, Kept)
  IN [pullRequests |->
        [k \in 1..Len(kept) |->
           PrEntry(kept[k].pr, kept[k].actionableComments.value)],
      err |-> UNION { processed[k].actionableComments.err :
                        k \in 1..Len(recentPrs) },
      log |-> UNION { processed[k].actionableComments.log :
                        k \in 1..Len(recentPrs) }]

RECURSIVE RepoLoop(_, _, _)
\* the loop over the repositories without its try / catch: a failing pull
\* request listing leaves the loop as an exception
RepoLoopNoCatch(repos, fails, t) ==
  IF repos = <<>>
  THEN [threw |-> FALSE, repositories |-> <<>>, err |-> {}, log |-> {}]
  ELSE LET repo == Head(repos)
           repoName == FullName(repo.owner.login, repo.name)
           thirtyDaysAgo == t - ThirtyDays
           prs == executeGhCommand(Command("pr list", repoName, 0), fails)
           Recent(pr) == IsRecentPr(pr.createdAt, thirtyDaysAgo)
           recentPrs == SelectSeq(prs.value, Recent)
           processed == PrLoop(repo, recentPrs, fails)
           repoData == [owner |-> repo.owner.login, name |-> repo.name,
                        url |-> repo.url, lastPush |-> repo.pushedAt,
                        pullRequests |-> processed.pullRequests]
           rest == RepoLoop(Tail(repos), fails, t)
       IN IF prs.threw
          THEN [threw |-> TRUE, repositories |-> <<>>, err |-> prs.err,
                log |-> {}]
          ELSE [threw |-> rest.threw,
                repositories |->
                  (IF KeepRepo(repoData.pullRequests)
                   THEN <<repoData>> ELSE <<>>) \o rest.repositories,
                err |-> processed.err \cup rest.err,
                log |-> processed.log \cup rest.log]

\* for (const repo of repos), with its try / catch
RepoLoop(repos, fails, t) ==
  IF repos = <<>>
  THEN [threw |-> FALSE, repositories |-> <<>>, err |-> {}, log |-> {}]
  ELSE LET repo == Head(repos)
           repoName == FullName(repo.owner.login, repo.name)
           thirtyDaysAgo == t - ThirtyDays
           prs == executeGhCommand(Command("pr list", repoName, 0), fails)
           Recent(pr) == IsRecentPr(pr.createdAt, thirtyDaysAgo)
           recentPrs == SelectSeq(prs.value, Recent)
           processed == PrLoop(repo, recentPrs, fails)
           repoData == [owner |-> repo.owner.login, name |-> repo.name,
                        url |-> repo.url, lastPush |-> repo.pushedAt,
                        pullRequests |-> processed.pullRequests]
           rest == RepoLoop(Tail(repos), fails, t)
       IN IF prs.threw
          THEN [threw |-> rest.threw,
                repositories |-> rest.repositories,
                err |-> prs.err \cup rest.err,
                log |-> {LogLine("processing", repoName, 0)} \cup rest.log]
          ELSE [threw |-> rest.threw,
                repositories |->
                  (IF KeepRepo(repoData.pullRequests)
                   THEN <<repoData>> ELSE <<>>) \o rest.repositories,
                err |-> processed.err \cup rest.err,
                log |-> processed.log \cup rest.log]

\* fetchAllData up to its two writes, run at time t with the commands of
\* fails failing: whether an exception left it, allData, the commands that
\* failed, the catch sites' lines
fetchAllDataResult(fails, t) ==
  LET monitored == getRepositoriesToMonitor(fails, t)
      looped == RepoLoop(monitored.repos, fails, t)
  IN [threw |-> looped.threw,
      allData |-> [lastUpdate |-> t, repositories |-> looped.repositories],
      err |-> monitored.err \cup looped.err,
      log |-> monitored.log \cup looped.log]

RECURSIVE SumPullRequests(_)
\* repositories.reduce((sum, repo) => sum + repo.pullRequests.length, 0)
SumPullRequests(repositories) ==
  IF repositories = <<>> THEN 0
  ELSE Len(Head(repositories).pullRequests)
       + SumPullRequests(Tail(repositories))

RECURSIVE SumActionableCount(_)
\* pullRequests.reduce((prSum, pr) => prSum + pr.actionableCount, 0)
SumActionableCount(pullRequests) ==
  IF pullRequests = <<>> THEN 0
  ELSE Head(pullRequests).actionableCount
       + SumActionableCount(Tail(pullRequests))

RECURSIVE SumActionableComments(_)
SumActionableComments(repositories) ==
  IF repositories = <<>> THEN 0
  ELSE SumActionableCount(Head(repositories).pullRequests)
       + SumActionableComments(Tail(repositories))

\* the metadata with the repositories counted in place of the pull requests
UpdateMetadataCountingRepos(data) ==
  [lastUpdate |-> data.lastUpdate,
   repositoryCount |-> Len(data.repositories),
   totalPRs |-> Len(data.repositories),
   totalActionableComments |-> SumActionableComments(data.repositories)]

\* the object written to last-update.json
UpdateMetadata(data) ==
  [lastUpdate |-> data.lastUpdate,
   repositoryCount |-> Len(data.repositories),
   totalPRs |-> SumPullRequests(data.repositories),
   totalActionableComments |-> SumActionableComments(data.repositories)]


\* --------------------------------------------------------------- JSON text
\* A JSON text is the tree of its tokens: an object is the sequence of its
\* key/value pairs in the order they are written, an array the sequence of
\* its elements.  EmptyText is the text of a file of length zero.
JStr(v) == [t |-> "str", v |-> v]
JNum(v) == [t |-> "num", v |-> v]
JArr(elements) == [t |-> "arr", v |-> elements]
JObj(pairs) == [t |-> "obj", v |-> pairs]
EmptyText == [t |-> "empty", v |-> <<>>]
\* a line of plain text, such as the URL that gh pr comment prints
PlainText(line) == [t |-> "plain", v |-> line]

\* JSON.stringify of one entry of actionableComments, keys in creation order
StringifyComment(c) ==
  JObj(<< <<"id", JNum(c.id)>>, <<"type", JStr(c.type)>>,
          <<"author", JStr(c.author)>>, <<"body", JStr(c.body)>>,
          <<"createdAt", JNum(c.createdAt)>> >>
       \o (IF c.type = "review" THEN << <<"state", JStr(c.state)>> >>
           ELSE <<>>)
       \o << <<"actionType", JStr(c.actionType)>>,
             <<"severity", JStr(c.severity)>> >>)

StringifyPr(pr) ==
  JObj(<< <<"number", JNum(pr.number)>>,
          <<"createdAt", JNum(pr.createdAt)>>,
          <<"actionableComments",
            JArr([k \in 1..Len(pr.actionableComments) |->
                    StringifyComment(pr.actionableComments[k])])>>,
          <<"actionableCount", JNum(pr.actionableCount)>>,
          <<"severityCounts",
            JObj(<< <<"high", JNum(pr.severityCounts.high)>>,
                    <<"medium", JNum(pr.severityCounts.medium)>>,
                    <<"low", JNum(pr.severityCounts.low)>> >>)>> >>)

StringifyRepo(repo) ==
  JObj(<< <<"owner", JStr(repo.owner)>>, <<"name", JStr(repo.name)>>,
          <<"url", JStr(repo.url)>>, <<"lastPush", JNum(repo.lastPush)>>,
          <<"pullRequests",
            JArr([k \in 1..Len(repo.pullRequests) |->
                    StringifyPr(repo.pullRequests[k])])>> >>)

\* JSON.stringify(allData, null, 2)
StringifyAllData(data) ==
  JObj(<< <<"lastUpdate", JNum(data.lastUpdate)>>,
          <<"repositories",
            JArr([k \in 1..Len(data.repositories) |->
                    StringifyRepo(data.repositories[k])])>> >>)

\* the metadata text with the two totals under each other's key
StringifyMetadataSwapped(m) ==
  JObj(<< <<"lastUpdate", JNum(m.lastUpdate)>>,
          <<"repositoryCount", JNum(m.repositoryCount)>>,
          <<"totalPRs", JNum(m.totalActionableComments)>>,
          <<"totalActionableComments", JNum(m.totalPRs)>> >>)

\* JSON.stringify({ lastUpdate, repositoryCount, totalPRs, ... }, null, 2)
StringifyMetadata(m) ==
  JObj(<< <<"lastUpdate", JNum(m.lastUpdate)>>,
          <<"repositoryCount", JNum(m.repositoryCount)>>,
          <<"totalPRs", JNum(m.totalPRs)>>,
          <<"totalActionableComments", JNum(m.totalActionableComments)>> >>)

RECURSIVE JsonValue(_)
\* the value a JSON text denotes; of a repeated key the last pair counts
JsonValue(text) ==
  CASE text.t = "obj" ->
         [key \in { text.v[k][1] : k \in 1..Len(text.v) } |->
            LET last == CHOOSE k \in 1..Len(text.v) :
                          /\ text.v[k][1] = key
                          /\ \A j \in k + 1..Len(text.v) : text.v[j][1] # key
            IN JsonValue(text.v[last][2])]
    [] text.t = "arr" -> [k \in 1..Len(text.v) |-> JsonValue(text.v[k])]
    [] OTHER -> text.v

\* JSON.parse: a SyntaxError on the empty text and on text that is no JSON
JSONparse(text) ==
  IF text.t \in {"empty", "plain"}
  THEN [threw |-> TRUE]
  ELSE [threw |-> FALSE, value |-> JsonValue(text)]

\* ------------------------------------------------------------------- files
NoFile == [exists |-> FALSE, text |-> EmptyText]
FileOf(text) == [exists |-> TRUE, text |-> text]

\* what a function hands back: a value, null, or an exception
Returns(v) == [threw |-> FALSE, isNull |-> FALSE, value |-> v]
ReturnsNull == [threw |-> FALSE, isNull |-> TRUE]
Throws == [threw |-> TRUE, isNull |-> FALSE]

\* the read without its try / catch
ReadJsonFileUncaught(file) ==
  IF file.exists
  THEN LET parsed == JSONparse(file.text)
       IN IF parsed.threw THEN Throws ELSE Returns(parsed.value)
  ELSE ReturnsNull

\* try { if (fs.existsSync(f)) return JSON.parse(fs.readFileSync(f)) }
\* catch { console.error(...) }  return null
ReadJsonFile(file) ==
  IF file.exists
  THEN LET parsed == JSONparse(file.text)
       IN IF parsed.threw THEN ReturnsNull ELSE Returns(parsed.value)
  ELSE ReturnsNull

loadCachedData == ReadJsonFile(prDataFile)

getLastUpdateInfo == ReadJsonFile(lastUpdateFile)


\* ----------------------------------------------------------------- actions
\* every command a refresh can issue against what GitHub holds
AllCommands ==
  { Command(c, r, 0) : c \in {"repo view", "pr list"}, r \in RepoNames }
  \cup UNION { { Command(c, r, gh[r].prs[k].number) :
                   c \in {"api comments", "pr view comments", "api reviews"},
                   k \in 1..Len(gh[r].prs) } : r \in RepoNames }

\* the failures one refresh can meet: at most one failing command for each
\* configured repository
FailureSets ==
  LET AtMostOne == {{}} \cup { {c} : c \in AllCommands }
  IN { UNION { pick[r] : r \in RepoNames } :
         pick \in { f \in [RepoNames -> AtMostOne] :
                      \A r \in RepoNames : \A c \in f[r] : c.repo = r } }

NoResponse == [sent |-> FALSE]

NoLines == [by |-> "nobody", lines |-> {}]

NoData == [lastUpdate |-> 0, repositories |-> <<>>]

\* ------------------------------------------------------------ local time
\* The local time is counted in minutes from a Sunday, 00:00.
getMinutes(clock) == clock % 60

getHours(clock) == (clock \div 60) % 24

\* 0 is Sunday
getDay(clock) == (clock \div (24 * 60)) % 7

\* the minute of a weekday at hour:minute
At(day, hour, minute) == (day * 24 + hour) * 60 + minute

officeHours == [startHour |-> 9, endHour |-> 18, workdays |-> {1, 2, 3, 4, 5}]

\* the window with its end hour included
isOfficeHoursEndIncluded(clock) ==
  /\ getDay(clock) \in officeHours.workdays
  /\ getHours(clock) >= officeHours.startHour
  /\ getHours(clock) <= officeHours.endHour

isOfficeHours(clock) ==
  /\ getDay(clock) \in officeHours.workdays
  /\ getHours(clock) >= officeHours.startHour
  /\ getHours(clock) < officeHours.endHour

\* the test of the interval callback without the minute
PeriodicDueEveryMinute(clock) ==
  /\ isOfficeHours(clock)
  /\ getHours(clock) % 3 = 0

\* the test of the interval callback
PeriodicDue(clock) ==
  /\ isOfficeHours(clock)
  /\ getHours(clock) % 3 = 0
  /\ getMinutes(clock) = 0

\* a lock around fetchAllData: it is called only when no other process is
\* between the start of a refresh and its last write
CanFetchLocked(p) ==
  /\ pc[p] = "idle" \/ (pc[p] \in {"returned", "rejected"} /\ p # "cli")
  /\ \A q \in Procs \ {p} :
       pc[q] \notin {"open data", "write data", "open meta", "write meta"}

\* a manual trigger that consults the active window
CanFetchInOfficeHours(p) ==
  /\ pc[p] = "idle" \/ (pc[p] \in {"returned", "rejected"} /\ p # "cli")
  /\ isOfficeHours(sched.clock)

\* when a process may call fetchAllData: the --fetch-now run calls it once;
\* the scheduler's timer and POST /api/fetch-data call it whenever the
\* previous call of the same process has come back, and consult nothing else
CanFetch(p) ==
  pc[p] = "idle" \/ (pc[p] \in {"returned", "rejected"} /\ p # "cli")

\* whether a snapshot holds a repository
InSnapshotOf(data, repoName) ==
  \E k \in 1..Len(data.repositories) :
    FullName(data.repositories[k].owner, data.repositories[k].name) = repoName

\* fetchAllData starting from the snapshot on disk in place of an empty list
\* of repositories: the repositories this call did not compute are kept
FetchAllDataMerging(p) ==
  /\ CanFetch(p)
  /\ \E fails \in FailureSets :
       \E r \in {fetchAllDataResult(fails, now)} :
          /\ r.err = fails
          /\ \E old \in { IF loadCachedData.isNull THEN <<>>
                           ELSE loadCachedData.value.repositories } :
               LET Carried(repo) ==
                     ~InSnapshotOf(r.allData, FullName(repo.owner, repo.name))
               IN allData' =
                    [allData EXCEPT ![p] =
                       [r.allData EXCEPT !.repositories =
                          @ \o SelectSeq(old, Carried)]]
          /\ errors' = [by |-> p, lines |-> r.log]
          /\ pc' = [pc EXCEPT ![p] = IF r.threw THEN "rejected"
                                     ELSE "open data"]
  /\ writer' = [f \in DOMAIN writer |->
                  IF writer[f] = p THEN "earlier" ELSE writer[f]]
  /\ resp' = NoResponse
  /\ UNCHANGED << body, verdict, now, gh, prDataFile, lastUpdateFile >>

\* A process calls fetchAllData: the CLI calls and the aggregation, up to the
\* first writeFileSync.  The code runs them without yielding to its own event
\* loop, and they touch no file; the instants the call reads from the clock
\* are taken as one.  An exception that leaves fetchAllData rejects its
\* promise, and no file is written.
FetchAllData(p) ==
  /\ CanFetch(p)
  /\ \E fails \in FailureSets :
       \E r \in {fetchAllDataResult(fails, now)} :
          /\ r.err = fails
          /\ allData' = [allData EXCEPT ![p] = r.allData]
          /\ errors' = [by |-> p, lines |-> r.log]
          /\ pc' = [pc EXCEPT ![p] = IF r.threw THEN "rejected"
                                     ELSE "open data"]
  /\ writer' = [f \in DOMAIN writer |->
                  IF writer[f] = p THEN "earlier" ELSE writer[f]]
  /\ resp' = NoResponse
  /\ UNCHANGED << body, verdict, now, gh, prDataFile, lastUpdateFile >>

\* fetchAllData called by a manual trigger, or by a fetcher process of which
\* the schedule is not followed
Fetch(p) == FetchAllData(p) /\ UNCHANGED sched

\* fs.writeFileSync(this.prDataFile, ...): open with O_TRUNC
OpenData(p) ==
  /\ pc[p] = "open data"
  /\ prDataFile' = FileOf(EmptyText)
  /\ writer' = [writer EXCEPT !.data = p]
  /\ pc' = [pc EXCEPT ![p] = "write data"]
  /\ resp' = NoResponse
  /\ errors' = NoLines
  /\ UNCHANGED << body, verdict, now, gh, lastUpdateFile, allData, sched >>

\* fs.writeFileSync(this.prDataFile, ...): write the text
WriteData(p) ==
  /\ pc[p] = "write data"
  /\ prDataFile' = FileOf(StringifyAllData(allData[p]))
  /\ writer' = [writer EXCEPT !.data = p]
  /\ pc' = [pc EXCEPT ![p] = "open meta"]
  /\ resp' = NoResponse
  /\ errors' = NoLines
  /\ UNCHANGED << body, verdict, now, gh, lastUpdateFile, allData, sched >>

\* fs.writeFileSync(this.lastUpdateFile, ...): open with O_TRUNC
OpenMeta(p) ==
  /\ pc[p] = "open meta"
  /\ lastUpdateFile' = FileOf(EmptyText)
  /\ writer' = [writer EXCEPT !.meta = p]
  /\ pc' = [pc EXCEPT ![p] = "write meta"]
  /\ resp' = NoResponse
  /\ errors' = NoLines
  /\ UNCHANGED << body, verdict, now, gh, prDataFile, allData, sched >>

\* fs.writeFileSync(this.lastUpdateFile, ...): write the text; return allData
WriteMeta(p) ==
  /\ pc[p] = "write meta"
  /\ lastUpdateFile' = FileOf(StringifyMetadata(UpdateMetadata(allData[p])))
  /\ writer' = [writer EXCEPT !.meta = p]
  /\ pc' = [pc EXCEPT ![p] = "returned"]
  /\ resp' = NoResponse
  /\ errors' = NoLines
  /\ UNCHANGED << body, verdict, now, gh, prDataFile, allData, sched >>

\* a rejection of fetchAllData that nothing catches: the process ends
WriteThrowsUnhandled(p) ==
  /\ pc[p] \in {"open data", "open meta"}
  /\ pc' = [pc EXCEPT ![p] = "rejected"]
  /\ sched' = [sched EXCEPT !.phase = "exited"]
  /\ resp' = NoResponse
  /\ errors' = NoLines
  /\ UNCHANGED << body, verdict, now, gh, prDataFile, lastUpdateFile, allData,
                  writer >>

\* fs.writeFileSync throws (no space, no permission): fetchAllData rejects,
\* and the .catch of the caller logs the error
WriteThrows(p) ==
  /\ pc[p] \in {"open data", "open meta"}
  /\ pc' = [pc EXCEPT ![p] = "rejected"]
  /\ resp' = NoResponse
  /\ errors' = NoLines
  /\ UNCHANGED << body, verdict, now, gh, prDataFile, lastUpdateFile, allData,
                  writer, sched >>

\* pkill -f "node data-fetcher.js": the process stops where it stands
Kill(p) ==
  /\ pc[p] \in {"open data", "write data", "open meta", "write meta"}
  /\ pc' = [pc EXCEPT ![p] = "killed"]
  /\ resp' = NoResponse
  /\ errors' = NoLines
  /\ UNCHANGED << body, verdict, now, gh, prDataFile, lastUpdateFile, allData,
                  writer, sched >>

\* GET /api/cached-data in the server process
CachedData ==
  /\ resp' = [sent |-> TRUE, data |-> loadCachedData,
              lastUpdate |-> getLastUpdateInfo]
  /\ errors' = NoLines
  /\ UNCHANGED << body, verdict, now, gh, prDataFile, lastUpdateFile, pc,
                  allData, writer, sched >>

\* time passes
Tick ==
  /\ now < MaxTicks
  /\ now' = now + 1
  /\ resp' = NoResponse
  /\ errors' = NoLines
  /\ UNCHANGED << body, verdict, gh, prDataFile, lastUpdateFile, pc, allData,
                  writer, sched >>

\* ---------------------------------------------------------- the scheduler
\* no automatic refresh started yet
NoStart == [kind |-> "none", at |-> 0]

\* the frame of a scheduler step that calls nothing
NothingCalled ==
  /\ resp' = NoResponse
  /\ errors' = NoLines
  /\ UNCHANGED << body, verdict, now, gh, prDataFile, lastUpdateFile, pc,
                  allData, writer >>

\* startScheduledFetcher at process start: the immediate refresh when in
\* office hours, then setInterval(..., 60 * 1000)
StartScheduledFetcher ==
  /\ sched.phase = "down"
  /\ IF isOfficeHours(sched.clock)
     THEN /\ FetchAllData("fetcher")
          /\ sched' = [sched EXCEPT !.phase = "up", !.due = sched.clock + 1,
                                    !.initial = 1,
                                    !.lastStart = [kind |-> "initial",
                                                   at |-> sched.clock]]
     ELSE /\ NothingCalled
          /\ sched' = [sched EXCEPT !.phase = "up", !.due = sched.clock + 1]

\* the interval callback, run when it is due and the event loop is free; the
\* interval is armed again for a minute later
IntervalCallback ==
  /\ sched.phase = "up"
  /\ sched.due <= sched.clock
  /\ CanFetch("fetcher")
  /\ IF PeriodicDue(sched.clock)
     THEN /\ FetchAllData("fetcher")
          /\ sched' = [sched EXCEPT !.due = sched.clock + 1,
                                    !.prevStart = sched.lastStart,
                                    !.lastStart = [kind |-> "periodic",
                                                   at |-> sched.clock]]
     ELSE /\ NothingCalled
          /\ sched' = [sched EXCEPT !.due = sched.clock + 1]

\* a minute of local time passes.  A refresh keeps the event loop busy from
\* its call to its last write (execSync, writeFileSync and awaits of settled
\* promises only), so a callback that is due waits; with the loop free, the
\* callback runs in the minute it is due.
Minute ==
  /\ sched.phase = "up"
  /\ sched.clock - sched.t0 < MaxRunMinutes
  /\ IF CanFetch("fetcher")
     THEN sched.clock < sched.due
     ELSE sched.clock - sched.lastStart.at < MaxRefreshMinutes
  /\ sched' = [sched EXCEPT !.clock = @ + 1]
  /\ NothingCalled

\* what a call of the classifier leaves in the record of the calls: the body,
\* the answer, and the time and the state of the cache file it was made in
Call(commentBody, result) ==
  [body |-> commentBody, result |-> result, at |-> now,
   cached |-> prDataFile.exists]

\* a classifier that answers by the clock
ClassifyByTheClock ==
  /\ ~verdict.done
  /\ Cardinality(verdict.calls) < MaxCalls
  /\ \E result \in { IF now % 2 = 1 THEN NotActionable
                      ELSE isCommentActionable(body) } :
       verdict' = [done |-> TRUE, result |-> result,
                   calls |-> verdict.calls \cup {Call(body, result)}]
  /\ UNCHANGED << body, now, gh, prDataFile, lastUpdateFile, pc, allData,
                  errors, writer, resp, sched >>

\* a call of isCommentActionable on the body under test
Classify ==
  /\ ~verdict.done
  /\ Cardinality(verdict.calls) < MaxCalls
  /\ \E result \in { isCommentActionable(body) } :
       verdict' = [done |-> TRUE, result |-> result,
                   calls |-> verdict.calls \cup {Call(body, result)}]
  /\ UNCHANGED << body, now, gh, prDataFile, lastUpdateFile, pc, allData,
                  errors, writer, resp, sched >>

\* ------------------------------------------------------------------- specs
NotCalled == [done |-> FALSE, result |-> NotActionable, calls |-> {}]

\* no fetcher process with a schedule: the local time plays no part
NoSchedule == [phase |-> "none"]

InitFiles ==
  /\ now = 0
  /\ prDataFile = NoFile
  /\ lastUpdateFile = NoFile
  /\ pc = [p \in Procs |-> "idle"]
  /\ allData = [p \in Procs |-> NoData]
  /\ errors = NoLines
  /\ writer = [data |-> "none", meta |-> "none"]
  /\ resp = NoResponse

\* node data-fetcher.js --fetch-now against any state of GitHub, with the web
\* server answering GET /api/cached-data and the start script's pkill
Init ==
  /\ body = Null
  /\ verdict = NotCalled
  /\ gh \in Worlds
  /\ InitFiles
  /\ sched = NoSchedule

Next ==
  \/ Fetch("cli")
  \/ OpenData("cli")
  \/ WriteData("cli")
  \/ OpenMeta("cli")
  \/ WriteMeta("cli")
  \/ Kill("cli")
  \/ CachedData
  \/ Tick

Spec == Init /\ [][Next]_vars


\* the texts of at most MaxBodyLen tokens
Bodies == UNION { [1..n -> Vocab] : n \in 0..MaxBodyLen }

\* the classifier alone, on every body
InitClassify ==
  /\ body \in Bodies \cup KeywordBodies \cup {Null}
  /\ verdict = NotCalled
  /\ gh = [r \in RepoNames |-> DefaultRepo]
  /\ InitFiles
  /\ sched = NoSchedule

NextClassify == Classify

SpecClassify == InitClassify /\ [][NextClassify]_vars

\* the data fetcher started by the start script and the web server, whose
\* POST /api/fetch-data starts a refresh, side by side on the same two files
RaceWorlds ==
  { [r \in RepoNames |->
       IF r = reposToMonitor[1] THEN DefaultRepo
       ELSE [pushedAt |-> (0 - ThirtyDays) - 1, prs |-> <<>>]],
    \* the second repository's last push is 30 days old at the first instant
    [r \in RepoNames |->
       IF r = reposToMonitor[1] THEN DefaultRepo
       ELSE [pushedAt |-> 0 - ThirtyDays, prs |-> <<PullRequest(4)>>]] }

InitRace ==
  /\ body = Null
  /\ verdict = NotCalled
  /\ gh \in RaceWorlds
  /\ InitFiles
  /\ sched = NoSchedule

NextRace ==
  \/ Fetch("fetcher")
  \/ OpenData("fetcher")
  \/ WriteData("fetcher")
  \/ OpenMeta("fetcher")
  \/ WriteMeta("fetcher")
  \/ Fetch("server")
  \/ OpenData("server")
  \/ WriteData("server")
  \/ OpenMeta("server")
  \/ WriteMeta("server")
  \/ CachedData
  \/ Tick

SpecRace == InitRace /\ [][NextRace]_vars


\* the minutes at which the fetcher process is started or a trigger arrives
StartTimes ==
  { At(1, 5, 59), At(1, 8, 58), At(1, 8, 59), At(1, 9, 0), At(1, 11, 58),
    At(1, 11, 59), At(5, 14, 59), At(5, 17, 59), At(6, 8, 59), At(0, 11, 59) }

\* both repositories untouched for more than 30 days
SchedWorlds ==
  { [r \in RepoNames |-> [pushedAt |-> (0 - ThirtyDays) - 1, prs |-> <<>>]] }

ProcessDown(clock) ==
  [phase |-> "down", clock |-> clock, t0 |-> clock, due |-> 0, initial |-> 0,
   lastStart |-> NoStart, prevStart |-> NoStart]

\* node data-fetcher.js, started at any of the start times and left running
InitSched ==
  /\ body = Null
  /\ verdict = NotCalled
  /\ gh \in SchedWorlds
  /\ InitFiles
  /\ sched \in { ProcessDown(clock) : clock \in StartTimes }

NextSched ==
  \/ StartScheduledFetcher
  \/ IntervalCallback
  \/ Minute
  \/ OpenData("fetcher")
  \/ WriteData("fetcher")
  \/ OpenMeta("fetcher")
  \/ WriteMeta("fetcher")
  \/ WriteThrows("fetcher")

SpecSched == InitSched /\ [][NextSched]_vars

\* the manual triggers at any local time: POST /api/fetch-data in the server
\* process and node data-fetcher.js --fetch-now
InitManual == InitSched

NextManual ==
  \/ Fetch("server")
  \/ OpenData("server")
  \/ WriteData("server")
  \/ OpenMeta("server")
  \/ WriteMeta("server")
  \/ Fetch("cli")
  \/ OpenData("cli")
  \/ WriteData("cli")
  \/ OpenMeta("cli")
  \/ WriteMeta("cli")

SpecManual == InitManual /\ [][NextManual]_vars

\* the bodies that are classified again and again
RepeatBodies == { << "broken", "?" >>, << "lgtm" >> }

\* the next comment comes up for classification
NextComment ==
  /\ verdict.done
  /\ body' \in RepeatBodies
  /\ verdict' = [verdict EXCEPT !.done = FALSE]
  /\ UNCHANGED << now, gh, prDataFile, lastUpdateFile, pc, allData, errors,
                  writer, resp, sched >>

\* the classifier called time and again in the server process, between and
\* during the refreshes that POST /api/fetch-data starts
InitRepeat ==
  /\ body \in RepeatBodies
  /\ verdict = NotCalled
  /\ gh \in SchedWorlds
  /\ InitFiles
  /\ sched = NoSchedule

NextRepeat ==
  \/ Classify
  \/ NextComment
  \/ Fetch("server")
  \/ OpenData("server")
  \/ WriteData("server")
  \/ OpenMeta("server")
  \/ WriteMeta("server")
  \/ Tick

SpecRepeat == InitRepeat /\ [][NextRepeat]_vars


\* ------------------------------------------------- the server's routes
\* whether the repository holds a pull request of that number
PrExists(repoName, n) ==
  \E k \in 1..Len(gh[repoName].prs) : gh[repoName].prs[k].number = n

\* what the server's commands print, parsed
server_GhOutput(command) ==
  CASE command.cmd = "pr list" ->
         LET prs == gh[command.repo].prs
             n == IF Len(prs) < server_PrListLimit
                  THEN Len(prs) ELSE server_PrListLimit
         IN [k \in 1..n |-> [number |-> prs[k].number,
                             createdAt |-> prs[k].createdAt]]
    [] command.cmd = "pr view details" ->
         [number |-> command.pr,
          createdAt |-> PrOf(command.repo, command.pr).createdAt]
    [] OTHER -> GhOutput(command)

\* executeGhCommand of github-server.js: the parsed output, or a throw when
\* execSync fails, as it does for a pull request that does not exist
server_executeGhCommand(command, fails) ==
  IF command \in fails \/ (command.pr # 0 /\ ~PrExists(command.repo, command.pr))
  THEN [threw |-> TRUE]
  ELSE [threw |-> FALSE, value |-> server_GhOutput(command)]

\* the cache consulted whatever use_cache says
UseCacheAlways(cachedData, useCache) == ~cachedData.isNull

\* if (cachedData && req.query.use_cache !== 'false')
UseCache(cachedData, useCache) == ~cachedData.isNull /\ useCache

\* cachedData.repositories.find(r => r.owner === owner && r.name === repo):
\* the positions of the matches, of which find takes the first
FindRepo(repositories, repoName) ==
  { k \in 1..Len(repositories) :
      /\ repositories[k].owner = OwnerOf(repoName)
      /\ repositories[k].name = NameOf(repoName) }

\* repoData.pullRequests.find(pr => pr.number === parseInt(number))
FindPr(pullRequests, number) ==
  { k \in 1..Len(pullRequests) : pullRequests[k].number = number }

First(S) == CHOOSE k \in S : \A j \in S : k <= j

\* Array.prototype.sort((a, b) => b[key] - a[key]): descending and stable
SortDescending(seq, key) ==
  LET Rank(i) ==
        Cardinality({ j \in 1..Len(seq) :
                        \/ seq[j][key] > seq[i][key]
                        \/ (seq[j][key] = seq[i][key] /\ j < i) }) + 1
  IN [p \in 1..Len(seq) |->
        seq[CHOOSE i \in 1..Len(seq) : Rank(i) = p]]

\* the answer of a route: what res.json got, and the commands that ran
ServerError(ran) ==
  [status |-> 500, success |-> FALSE, fromCache |-> "undefined", ran |-> ran]

\* GET /api/repos/:owner/:repo/prs, on the cache
PrsFromCache(cachedData, repoData) ==
  [status |-> 200, success |-> TRUE, fromCache |-> "true",
   lastUpdate |-> cachedData.lastUpdate,
   prs |-> SortDescending(
             [k \in 1..Len(repoData.pullRequests) |->
                [number |-> repoData.pullRequests[k].number,
                 totalComments |-> repoData.pullRequests[k].actionableCount,
                 commentCount |-> repoData.pullRequests[k].actionableCount,
                 reviewCommentCount |-> 0]],
             "totalComments"),
   ran |-> {}]

\* the comment counts of one pull request on the live path, with its try/catch
PrWithComments(repoName, pr, fails) ==
  LET c1 == Command("pr view comments", repoName, pr.number)
      c2 == Command("api comments", repoName, pr.number)
      comments == server_executeGhCommand(c1, fails)
      reviewComments == server_executeGhCommand(c2, fails)
  IN IF comments.threw
     THEN [pr |-> [number |-> pr.number, totalComments |-> 0,
                   commentCount |-> 0, reviewCommentCount |-> 0],
           ran |-> {c1}]
     ELSE IF reviewComments.threw
     THEN [pr |-> [number |-> pr.number, totalComments |-> 0,
                   commentCount |-> 0, reviewCommentCount |-> 0],
           ran |-> {c1, c2}]
     ELSE [pr |-> [number |-> pr.number,
                   totalComments |-> Len(comments.value.comments)
                                       + Len(reviewComments.value),
                   commentCount |-> Len(comments.value.comments),
                   reviewCommentCount |-> Len(reviewComments.value)],
           ran |-> {c1, c2}]

\* GET /api/repos/:owner/:repo/prs, on live data
PrsLive(repoName, fails, t) ==
  LET c0 == Command("pr list", repoName, 0)
      prs == server_executeGhCommand(c0, fails)
      Recent(pr) == pr.createdAt >= t - ThirtyDays
      filteredPrs == SelectSeq(prs.value, Recent)
      prsWithComments ==
        [k \in 1..Len(filteredPrs) |->
           PrWithComments(repoName, filteredPrs[k], fails)]
  IN IF prs.threw
     THEN ServerError({c0})
     ELSE [status |-> 200, success |-> TRUE, fromCache |-> "false",
           prs |-> SortDescending(
                     [k \in 1..Len(filteredPrs) |-> prsWithComments[k].pr],
                     "totalComments"),
           ran |-> {c0} \cup UNION { prsWithComments[k].ran :
                                       k \in 1..Len(filteredPrs) }]

\* GET /api/repos/:owner/:repo/prs
PrsRoute(repoName, useCache, fails, t) ==
  LET cachedData == loadCachedData
      found == IF UseCache(cachedData, useCache)
               THEN FindRepo(cachedData.value.repositories, repoName)
               ELSE {}
  IN IF found # {}
     THEN PrsFromCache(cachedData.value,
                       cachedData.value.repositories[First(found)])
     ELSE PrsLive(repoName, fails, t)

\* acc[c[field]] = (acc[c[field]] || 0) + 1 over the comments
CountBy(comments, field) ==
  [key \in { comments[k][field] : k \in 1..Len(comments) } |->
     Cardinality({ k \in 1..Len(comments) : comments[k][field] = key })]

\* GET /api/repos/:owner/:repo/prs/:number/comments, on the cache
CommentsFromCache(cachedData, prData) ==
  [status |-> 200, success |-> TRUE, fromCache |-> "true",
   lastUpdate |-> cachedData.lastUpdate,
   pr |-> prData.number,
   actionableComments |-> prData.actionableComments,
   stats |-> [total |-> prData.actionableCount,
              byType |-> CountBy(prData.actionableComments, "actionType"),
              bySeverity |-> prData.severityCounts],
   ran |-> {}]

\* the three forEach loops of the live path, with the server's classifier
server_ActionableComments(reviewComments, generalComments, reviews) ==
  LET RcKept(c) == server_isCommentActionable(c.body).actionable
      rc == SelectSeq(reviewComments, RcKept)
      gc == SelectSeq(generalComments, RcKept)
      RvKept(r) == /\ r.body # Null /\ r.body # <<>>
                   /\ r.state # "COMMENTED"
                   /\ server_isCommentActionable(r.body).actionable
      rv == SelectSeq(reviews, RvKept)
  IN [k \in 1..Len(rc) |->
        [id |-> rc[k].id, type |-> "review_comment",
         author |-> rc[k].user.login, body |-> rc[k].body,
         createdAt |-> rc[k].created_at,
         actionType |-> server_isCommentActionable(rc[k].body).type,
         severity |-> server_isCommentActionable(rc[k].body).severity]]
     \o
     [k \in 1..Len(gc) |->
        [id |-> gc[k].id, type |-> "general_comment",
         author |-> gc[k].author.login, body |-> gc[k].body,
         createdAt |-> gc[k].createdAt,
         actionType |-> server_isCommentActionable(gc[k].body).type,
         severity |-> server_isCommentActionable(gc[k].body).severity]]
     \o
     [k \in 1..Len(rv) |->
        [id |-> rv[k].id, type |-> "review",
         author |-> rv[k].user.login, body |-> rv[k].body,
         createdAt |-> rv[k].submitted_at, state |-> rv[k].state,
         actionType |-> server_isCommentActionable(rv[k].body).type,
         severity |-> server_isCommentActionable(rv[k].body).severity]]

\* GET /api/repos/:owner/:repo/prs/:number/comments, on live data
CommentsLive(repoName, number, fails) ==
  LET c1 == Command("pr view details", repoName, number)
      c2 == Command("pr view comments", repoName, number)
      c3 == Command("api comments", repoName, number)
      c4 == Command("api reviews", repoName, number)
      prDetails == server_executeGhCommand(c1, fails)
      generalComments == server_executeGhCommand(c2, fails)
      reviewComments == server_executeGhCommand(c3, fails)
      reviews == server_executeGhCommand(c4, fails)
  IN IF prDetails.threw THEN ServerError({c1})
     ELSE IF generalComments.threw THEN ServerError({c1, c2})
     ELSE IF reviewComments.threw THEN ServerError({c1, c2, c3})
     ELSE IF reviews.threw THEN ServerError({c1, c2, c3, c4})
     ELSE LET actionableComments ==
                SortDescending(
                  server_ActionableComments(reviewComments.value,
                                            generalComments.value.comments,
                                            reviews.value),
                  "createdAt")
          IN [status |-> 200, success |-> TRUE, fromCache |-> "undefined",
              pr |-> prDetails.value.number,
              actionableComments |-> actionableComments,
              stats |-> [total |-> Len(actionableComments),
                         byType |-> CountBy(actionableComments, "actionType"),
                         bySeverity |-> CountBy(actionableComments, "severity")],
              ran |-> {c1, c2, c3, c4}]

\* GET /api/repos/:owner/:repo/prs/:number/comments
CommentsRoute(repoName, number, useCache, fails) ==
  LET cachedData == loadCachedData
      found == IF UseCache(cachedData, useCache)
               THEN FindRepo(cachedData.value.repositories, repoName)
               ELSE {}
      prs == IF found = {} THEN <<>>
             ELSE cachedData.value.repositories[First(found)].pullRequests
      prFound == FindPr(prs, number)
  IN IF prFound # {}
     THEN CommentsFromCache(cachedData.value, prs[First(prFound)])
     ELSE CommentsLive(repoName, number, fails)

\* the pull request numbers a request can name
RequestedNumbers == { 1, 4 }

\* the commands the two routes can run
PrsCommands(repoName) ==
  { Command("pr list", repoName, 0) }
  \cup { Command(c, repoName, n) :
           c \in {"pr view comments", "api comments"},
           n \in RequestedNumbers }

CommentsCommands(repoName, number) ==
  { Command(c, repoName, number) :
      c \in {"pr view details", "pr view comments", "api comments",
             "api reviews"} }

\* the failures a request can meet: at most one failing command
RouteFailures(commands) == {{}} \cup { {c} : c \in commands }

\* a request served by a route: what was asked and what was answered
Served(route, repoName, number, useCache, fails, answer) ==
  [sent |-> TRUE, route |-> route, repo |-> repoName, number |-> number,
   useCache |-> useCache, failed |-> fails, answer |-> answer]

GetPrs(repoName, useCache) ==
  /\ \E fails \in RouteFailures(PrsCommands(repoName)) :
       \E answer \in {PrsRoute(repoName, useCache, fails, now)} :
         /\ fails \subseteq answer.ran
         /\ resp' = Served("prs", repoName, 0, useCache, fails, answer)
  /\ errors' = NoLines
  /\ UNCHANGED << body, verdict, now, gh, prDataFile, lastUpdateFile, pc,
                  allData, writer, sched >>

GetComments(repoName, number, useCache) ==
  /\ \E fails \in RouteFailures(CommentsCommands(repoName, number)) :
       \E answer \in {CommentsRoute(repoName, number, useCache, fails)} :
         /\ fails \subseteq answer.ran
         /\ resp' = Served("comments", repoName, number, useCache, fails,
                           answer)
  /\ errors' = NoLines
  /\ UNCHANGED << body, verdict, now, gh, prDataFile, lastUpdateFile, pc,
                  allData, writer, sched >>

\* the web server answering the two routes while node data-fetcher.js
\* --fetch-now writes the cache files, or is killed over it
InitRoutes ==
  /\ body = Null
  /\ verdict = NotCalled
  /\ gh \in RaceWorlds
  /\ InitFiles
  /\ sched = NoSchedule

NextRoutes ==
  \/ Fetch("cli")
  \/ OpenData("cli")
  \/ WriteData("cli")
  \/ OpenMeta("cli")
  \/ WriteMeta("cli")
  \/ Kill("cli")
  \/ \E r \in RepoNames, u \in BOOLEAN : GetPrs(r, u)
  \/ \E r \in RepoNames, n \in RequestedNumbers, u \in BOOLEAN :
       GetComments(r, n, u)

SpecRoutes == InitRoutes /\ [][NextRoutes]_vars

\* ------------------------------------ POST .../prs/:number/comments
\* what gh pr comment does: it exits non-zero and posts nothing, or it posts
\* the comment and prints the comment's URL
GhCommentOutcomes == { "fails", "posts" }

\* the comment as GitHub stores it
PostedComment(repoName, number, commentBody) ==
  [id |-> 41 + Len(PrOf(repoName, number).comments),
   body |-> commentBody,
   author |-> [login |-> "tool"], createdAt |-> now]

\* GitHub after gh pr comment has posted
WithComment(repoName, number, commentBody) ==
  [gh EXCEPT ![repoName].prs =
     [k \in 1..Len(@) |->
        IF @[k].number = number
        THEN [@[k] EXCEPT !.comments =
                Append(@, PostedComment(repoName, number, commentBody))]
        ELSE @[k]]]

\* executeGhCommand of github-server.js on a finished gh pr comment:
\* execSync throws on a non-zero exit, JSON.parse on output that is no JSON
server_executeGhComment(exitCode, stdout) ==
  IF exitCode # 0
  THEN [threw |-> TRUE]
  ELSE LET parsed == JSONparse(stdout)
       IN IF parsed.threw THEN [threw |-> TRUE]
          ELSE [threw |-> FALSE, value |-> parsed.value]

\* `${severityEmoji[severity]} **${type...}** (${severity...} priority)
\* \n\n${body} ... *Added via GitHub PR Comment Tool*`
CommentBody(type, severity, commentBody) ==
  << type, severity, "priority" >> \o commentBody
    \o << "added", "via", "github", "pr", "tool" >>

\* the handler: the answer, and whether gh has posted the comment
PostCommentRoute(repoName, number, type, commentBody, outcome) ==
  IF commentBody = Null \/ commentBody = <<>>
  THEN [status |-> 400, success |-> FALSE, posted |-> FALSE]
  ELSE IF type = "undefined"
  THEN \* type.replace throws a TypeError
       [status |-> 500, success |-> FALSE, posted |-> FALSE]
  ELSE IF outcome = "fails" \/ ~PrExists(repoName, number)
  THEN IF server_executeGhComment(1, EmptyText).threw
       THEN [status |-> 500, success |-> FALSE, posted |-> FALSE]
       ELSE [status |-> 200, success |-> TRUE, posted |-> FALSE]
  ELSE IF server_executeGhComment(0, PlainText(<< "url" >>)).threw
       THEN [status |-> 500, success |-> FALSE, posted |-> TRUE]
       ELSE [status |-> 200, success |-> TRUE, posted |-> TRUE]

PostComment(repoName, number, type, commentBody) ==
  /\ \A r \in RepoNames : \A k \in 1..Len(gh[r].prs) :
       Len(gh[r].prs[k].comments)
         < Len(PullRequest(gh[r].prs[k].number).comments) + MaxPosted
  /\ \E outcome \in GhCommentOutcomes :
       \E answer \in {PostCommentRoute(repoName, number, type, commentBody,
                                       outcome)} :
         /\ resp' = [sent |-> TRUE, route |-> "post comment",
                     repo |-> repoName, number |-> number,
                     answer |-> answer]
         /\ gh' = IF answer.posted
                  THEN WithComment(repoName, number,
                                   CommentBody(type, "low", commentBody))
                  ELSE gh
  /\ errors' = NoLines
  /\ UNCHANGED << body, verdict, now, prDataFile, lastUpdateFile, pc,
                  allData, writer, sched >>

\* the comment bodies and types a request can carry
PostedBodies == { Null, <<>>, << "lgtm" >> }

PostedTypes == { "undefined", "suggestion" }

\* the web server taking comments for the pull requests of both repositories
InitPost ==
  /\ body = Null
  /\ verdict = NotCalled
  /\ gh = [r \in RepoNames |-> DefaultRepo]
  /\ InitFiles
  /\ sched = NoSchedule

NextPost ==
  \/ \E r \in RepoNames, n \in RequestedNumbers, type \in PostedTypes,
        commentBody \in PostedBodies : PostComment(r, n, type, commentBody)
  \/ \E r \in RepoNames, n \in RequestedNumbers : GetComments(r, n, FALSE)
  \/ Tick

SpecPost == InitPost /\ [][NextPost]_vars

\* ---------------------------------------------------------- the event loop
\* One Node process.  A task is a timer callback that finds a refresh due or
\* the handler of a POST /api/fetch-data request; either calls fetchAllData
\* once.  An invocation runs until its next await; what follows the await
\* runs later, as a microtask.  The loop takes the next task only when no
\* code runs and no microtask is queued.
NotStarted == [pos |-> "not started", left |-> 0]

EventLoop ==
  [phase |-> "loop", tasks |-> {}, micro |-> <<>>, started |-> 0,
   inv |-> [id \in 1..MaxInvocations |-> NotStarted]]

InProgress(loop) ==
  { id \in 1..MaxInvocations :
      loop.inv[id].pos \in {"await repos", "await comments"} }

\* the calls of getActionableComments that an invocation at time t awaits
RecentPrCount(t) ==
  Cardinality(
    { x \in RepoNames \X (1..MaxPRs) :
        /\ HasRecentActivity(gh[x[1]].pushedAt, t - ThirtyDays)
        /\ x[2] <= Len(Listed(x[1]))
        /\ IsRecentPr(Listed(x[1])[x[2]].createdAt, t - ThirtyDays) })

\* an await of a promise that is still pending, as the promise of an
\* asynchronous exec would be: nothing is queued until the child exits
AwaitPending(micro, id) == micro

\* await this.getRepositoriesToMonitor(), await this.getActionableComments():
\* an async function whose body ran to its end on execSync calls has returned
\* a settled promise, and the continuation is queued as a microtask
AwaitSettled(micro, id) == Append(micro, id)

\* the interval elapses at a due minute, or a POST /api/fetch-data arrives,
\* whatever the process is doing
TaskArrives(kind) ==
  /\ sched.phase = "loop"
  /\ kind \notin sched.tasks
  /\ sched' = [sched EXCEPT !.tasks = @ \cup {kind}]
  /\ resp' = NoResponse
  /\ errors' = NoLines
  /\ UNCHANGED << body, verdict, now, gh, prDataFile, lastUpdateFile, pc,
                  allData, writer >>

\* the loop runs the task: fetchAllData is called and runs up to
\* await this.getRepositoriesToMonitor()
RunTask(kind) ==
  /\ sched.phase = "loop"
  /\ kind \in sched.tasks
  /\ sched.micro = <<>>
  /\ sched.started < MaxInvocations
  /\ sched' = [sched EXCEPT
                 !.tasks = @ \ {kind},
                 !.started = @ + 1,
                 !.inv[sched.started + 1] =
                    [pos |-> "await repos", left |-> 0],
                 !.micro = AwaitSettled(@, sched.started + 1)]
  /\ resp' = NoResponse
  /\ errors' = NoLines
  /\ UNCHANGED << body, verdict, now, gh, prDataFile, lastUpdateFile, pc,
                  allData, writer >>

\* the continuation at the head of the microtask queue runs up to the next
\* await this.getActionableComments(...)
ResumeToAwait ==
  /\ sched.phase = "loop"
  /\ sched.micro # <<>>
  /\ \E id \in {Head(sched.micro)} :
       \E left \in { IF sched.inv[id].pos = "await repos"
                     THEN RecentPrCount(now)
                     ELSE sched.inv[id].left } :
         /\ left > 0
         /\ sched' = [sched EXCEPT
                        !.inv[id] = [pos |-> "await comments",
                                     left |-> left - 1],
                        !.micro = AwaitSettled(Tail(@), id)]
  /\ resp' = NoResponse
  /\ errors' = NoLines
  /\ UNCHANGED << body, verdict, now, gh, prDataFile, lastUpdateFile, pc,
                  allData, writer >>

\* the continuation at the head of the microtask queue runs to the end of
\* fetchAllData: no pull request is left, and the two files are written
ResumeToEnd ==
  /\ sched.phase = "loop"
  /\ sched.micro # <<>>
  /\ \E id \in {Head(sched.micro)} :
       /\ IF sched.inv[id].pos = "await repos"
          THEN RecentPrCount(now) = 0
          ELSE sched.inv[id].left = 0
       /\ sched' = [sched EXCEPT !.inv[id] = [pos |-> "done", left |-> 0],
                                 !.micro = Tail(@)]
  /\ \E r \in {fetchAllDataResult({}, now)} :
       /\ allData' = [allData EXCEPT !["server"] = r.allData]
       /\ prDataFile' = FileOf(StringifyAllData(r.allData))
       /\ lastUpdateFile' = FileOf(StringifyMetadata(UpdateMetadata(r.allData)))
  /\ writer' = [data |-> "server", meta |-> "server"]
  /\ resp' = NoResponse
  /\ errors' = NoLines
  /\ UNCHANGED << body, verdict, now, gh, pc >>

LoopWorlds ==
  SchedWorlds \cup { [r \in RepoNames |-> DefaultRepo] }

\* one Node process with its timer and its POST /api/fetch-data route
InitLoop ==
  /\ body = Null
  /\ verdict = NotCalled
  /\ gh \in LoopWorlds
  /\ InitFiles
  /\ sched = EventLoop

NextLoop ==
  \/ TaskArrives("timer")
  \/ TaskArrives("post")
  \/ RunTask("timer")
  \/ RunTask("post")
  \/ ResumeToAwait
  \/ ResumeToEnd
  \/ Tick

SpecLoop == InitLoop /\ [][NextLoop]_vars

\* ------------------------------------------- smartMergeAnalysis (variant)
\* a message as its first 50 characters and the rest
Message(head, rest) == [head |-> head, rest |-> rest]

\* an issue of an analysis; the fields the merge never reads are left out
Issue(fileName, fileLineNumber, type, message, severity) ==
  [fileName |-> fileName, fileLineNumber |-> fileLineNumber, type |-> type,
   message |-> message, severity |-> severity]

\* the issues the analyses are drawn from: two that differ only after the
\* 50th character of the message, one at line 1 of a file, one at a line
\* past the hunk, one in a file the diff does not touch
Issues ==
  { Issue("a.js", 10, "console-log", Message("Remove console.log", ""), "low"),
    Issue("a.js", 10, "console-log", Message("Remove console.log", "s"), "low"),
    Issue("a.js", 1, "todo", Message("Resolve TODO", ""), "medium"),
    Issue("a.js", 12, "todo", Message("Resolve TODO", ""), "medium"),
    Issue("b.js", 20, "any", Message("Avoid any", ""), "high") }

\* the lines of a unified diff, by what each starts with
DiffGit(file) == [starts |-> "diff --git", file |-> file, start |-> 0]
Hunk(start)   == [starts |-> "@@", file |-> "", start |-> start]
DiffLine(c)   == [starts |-> c, file |-> "", start |-> 0]

\* git's header of a file's section: diff --git, index, --- a/file, +++ b/file
FileHeader(file) ==
  << DiffGit(file), DiffLine("index"), DiffLine("-"), DiffLine("+") >>

\* the current diff of the pull request: nothing, a hunk at lines 10 and 11
\* of a.js, the same hunk opening with a removed line, and a hunk of b.js
Diffs ==
  { << >>,
    FileHeader("a.js") \o << Hunk(10), DiffLine(" "), DiffLine("+"),
                             DiffLine("-") >>,
    FileHeader("a.js") \o << Hunk(10), DiffLine("-"), DiffLine("+") >>,
    FileHeader("b.js") \o << Hunk(20), DiffLine("+") >> }

\* the hash of an issue: fileName:fileLineNumber:type:message.substring(0, 50)
IssueHash(issue) ==
  << issue.fileName, issue.fileLineNumber, issue.type, issue.message.head >>

\* the scan of isLineStillInDiff from line k on, with the file and the line
\* number it has reached
RECURSIVE ScanDiff(_, _, _, _, _)
ScanDiff(issue, lines, k, currentFile, currentFileLineNumber) ==
  IF k > Len(lines) THEN FALSE
  ELSE
    LET line == lines[k] IN
    CASE line.starts = "diff --git" ->
           ScanDiff(issue, lines, k + 1, line.file, 0)
      [] line.starts = "@@" ->
           ScanDiff(issue, lines, k + 1, currentFile, line.start - 1)
      [] line.starts \in {"+", "-", " "} ->
           LET n == IF line.starts \in {"+", " "}
                    THEN currentFileLineNumber + 1
                    ELSE currentFileLineNumber
           IN \/ (currentFile = issue.fileName /\ n = issue.fileLineNumber)
              \/ ScanDiff(issue, lines, k + 1, currentFile, n)
      [] OTHER ->
           ScanDiff(issue, lines, k + 1, currentFile, currentFileLineNumber)

isLineStillInDiff(issue, currentDiff) ==
  ScanDiff(issue, currentDiff, 1, Null, 0)

\* an issue of the merged analysis
Merged(issue, status, stamp, t) ==
  [issue |-> issue, status |-> status, stamp |-> stamp, at |-> t]

\* the first loop's hashes of the fresh issues
FreshIssueHashes(freshAnalysis) ==
  { IssueHash(freshAnalysis[j]) : j \in 1..Len(freshAnalysis) }

\* the second loop's test on an existing issue
KeepsExisting(existingIssue, freshAnalysis, currentDiff) ==
  \/ IssueHash(existingIssue) \in FreshIssueHashes(freshAnalysis)
  \/ isLineStillInDiff(existingIssue, currentDiff)

\* merged after the second loop
MergeExisting(existingAnalysis, freshAnalysis, currentDiff, t) ==
  LET kept == SelectSeq(existingAnalysis,
                LAMBDA e : KeepsExisting(e, freshAnalysis, currentDiff))
  IN [i \in 1..Len(kept) |-> Merged(kept[i], "existing", "lastSeen", t)]

\* merged after the first k fresh issues of the third loop
RECURSIVE MergeFresh(_, _, _, _)
MergeFresh(merged, freshAnalysis, k, t) ==
  IF k = 0 THEN merged
  ELSE
    LET before == MergeFresh(merged, freshAnalysis, k - 1, t)
        freshIssue == freshAnalysis[k]
    IN IF \E i \in 1..Len(before) :
            IssueHash(before[i].issue) = IssueHash(freshIssue)
       THEN before
       ELSE Append(before, Merged(freshIssue, "new", "firstSeen", t))

severityOrder == [high |-> 3, medium |-> 2, low |-> 1]

\* how often x occurs in the sequence
Occurrences(seq, x) == Cardinality({ i \in 1..Len(seq) : seq[i] = x })

\* the sort: severity descending. Between two issues of one severity the
\* comparator answers by the status of its first argument alone, so their
\* order is the sort algorithm's; the result keeps them as a bag per severity.
SortBySeverity(merged) ==
  [s \in DOMAIN severityOrder |->
     LET members == SelectSeq(merged, LAMBDA m : m.issue.severity = s)
     IN [m \in { members[i] : i \in 1..Len(members) } |->
           Occurrences(members, m)]]

smartMergeAnalysis(existingAnalysis, freshAnalysis, currentDiff, t) ==
  SortBySeverity(
    MergeFresh(MergeExisting(existingAnalysis, freshAnalysis, currentDiff, t),
               freshAnalysis, Len(freshAnalysis), t))

\* the analyses of at most MaxIssues issues
Analyses ==
  UNION { [1..n -> Issues] : n \in 0..MaxIssues }

\* one call of the merge
SmartMerge ==
  /\ ~verdict.done
  /\ verdict' = [done |-> TRUE,
                 result |-> smartMergeAnalysis(body.existing, body.fresh,
                                               body.diff, now),
                 calls |-> {}]
  /\ resp' = NoResponse
  /\ errors' = NoLines
  /\ UNCHANGED << body, now, gh, prDataFile, lastUpdateFile, pc, allData,
                  writer, sched >>

\* the archived analysis, the fresh analysis and the current diff of a request
InitMerge ==
  /\ body \in [existing : Analyses, fresh : Analyses, diff : Diffs]
  /\ verdict = NotCalled
  /\ gh = [r \in RepoNames |-> DefaultRepo]
  /\ InitFiles
  /\ sched = NoSchedule

NextMerge == SmartMerge

SpecMerge == InitMerge /\ [][NextMerge]_vars

\* ------------------------------------------------ CodeAnalysisRunner (variant)
\* a line of a diff with its text after the first character, as tokens
TextLine(starts, text) ==
  [starts |-> starts, file |-> "", start |-> 0, text |-> text]

\* git's header of a file's section, with the text of its lines
Section(file) ==
  << [starts |-> "diff --git", file |-> file, start |-> 0, text |-> << >>],
     TextLine("index", << >>),
     TextLine("-", << "-- a/", file >>),
     TextLine("+", << "++ b/", file >>) >>

HunkLine(start) ==
  [starts |-> "@@", file |-> "", start |-> start, text |-> << >>]

\* one of the patterns of analyzeCode: the tokens its regular expression
\* finds, whether it ignores case, whether it binds to the end of the line
AnalysisPattern(alts, ignoreCase, atEnd, severity, type, message) ==
  [alts |-> alts, ignoreCase |-> ignoreCase, atEnd |-> atEnd,
   severity |-> severity, type |-> type, message |-> message]

securityPatterns ==
  << AnalysisPattern({"password", "secret", "key =", "token ="}, TRUE, FALSE,
                     "high", "fix_required", "hardcoded secret"),
     AnalysisPattern({"exec(", "eval(", "system("}, FALSE, FALSE,
                     "high", "fix_required", "dynamic code execution"),
     AnalysisPattern({".split()"}, FALSE, TRUE,
                     "medium", "improvement_needed", "shlex.split"),
     AnalysisPattern({"except:"}, FALSE, FALSE,
                     "medium", "improvement_needed", "bare except"),
     AnalysisPattern({"0.0.0.0"}, FALSE, FALSE,
                     "high", "fix_required", "binding to 0.0.0.0") >>

dockerPatterns ==
  << AnalysisPattern({"FROM node:latest"}, FALSE, FALSE,
                     "medium", "improvement_needed", "latest tag"),
     AnalysisPattern({"USER root"}, FALSE, FALSE,
                     "high", "fix_required", "container as root"),
     AnalysisPattern({"ports: - \"80:80\""}, FALSE, FALSE,
                     "medium", "suggestion", "bind to localhost") >>

databasePatterns ==
  << AnalysisPattern({"select * from"}, TRUE, FALSE,
                     "low", "suggestion", "SELECT *"),
     AnalysisPattern({"drop table", "delete from t where"}, TRUE, FALSE,
                     "high", "fix_required", "destructive operation") >>

allPatterns == securityPatterns \o dockerPatterns \o databasePatterns

\* the token as a regular expression with the i flag reads it
IgnoreCase(token) ==
  CASE token = "PASSWORD" -> "password"
    [] token = "SELECT * FROM" -> "select * from"
    [] token = "DROP TABLE" -> "drop table"
    [] OTHER -> token

\* pattern.pattern.test(cleanLine)
AnalysisPatternTest(pattern, cleanLine) ==
  \E k \in 1..Len(cleanLine) :
    /\ (IF pattern.ignoreCase THEN IgnoreCase(cleanLine[k]) ELSE cleanLine[k])
         \in pattern.alts
    /\ pattern.atEnd => k = Len(cleanLine)

\* the issue analyzeCode pushes for a line of the diff and a pattern
AnalysisIssue(repoName, prNumber, fileName, index, pattern, cleanLine, t) ==
  [repository |-> repoName, prNumber |-> prNumber, file |-> fileName,
   line |-> index, severity |-> pattern.severity, type |-> pattern.type,
   message |-> pattern.message, codeSnippet |-> cleanLine, detected |-> t]

\* analyzeCode: every line of the diff it is handed that starts with "+",
\* against every pattern, in the order of the lines and of the patterns
analyzeCode(diff, fileName, repoName, prNumber, t) ==
  LET np == Len(allPatterns)
      pairs == [i \in 1..(Len(diff) * np) |->
                  [index |-> ((i - 1) \div np) + 1,
                   pattern |-> ((i - 1) % np) + 1]]
      hits == SelectSeq(pairs,
                LAMBDA x : /\ diff[x.index].starts = "+"
                           /\ AnalysisPatternTest(allPatterns[x.pattern],
                                                  diff[x.index].text))
  IN [i \in 1..Len(hits) |->
        AnalysisIssue(repoName, prNumber, fileName, hits[i].index,
                      allPatterns[hits[i].pattern], diff[hits[i].index].text,
                      t)]

\* extractFilesFromDiff: the file of every diff --git line, in order
extractFilesFromDiff(diff) ==
  LET heads == SelectSeq(diff, LAMBDA line : line.starts = "diff --git")
  IN [i \in 1..Len(heads) |-> heads[i].file]

\* the sequences of a sequence of sequences, one after the other
RECURSIVE Flatten(_)
Flatten(seqs) ==
  IF seqs = << >> THEN << >> ELSE Head(seqs) \o Flatten(Tail(seqs))

\* gh repo list h1-aot --limit 50 and gh pr list --limit 10
RepoListLimit == 50
AnalysisPrLimit == 10

AtMost(seq, n) == SubSeq(seq, 1, IF Len(seq) < n THEN Len(seq) ELSE n)

AnalysisCommand(cmd, repoName, prNumber) ==
  [cmd |-> cmd, repo |-> repoName, pr |-> prNumber]

\* getAllRepositories: [] when the command fails
getAllRepositories(fails) ==
  IF AnalysisCommand("repo list", "", 0) \in fails THEN << >>
  ELSE AtMost(gh.repos, RepoListLimit)

\* getOpenPRsForRepo: [] when the command fails
getOpenPRsForRepo(repo, fails) ==
  IF AnalysisCommand("pr list", repo.name, 0) \in fails THEN << >>
  ELSE AtMost(repo.prs, AnalysisPrLimit)

\* getPRDiff: '' when the command fails
getPRDiff(repo, pr, fails) ==
  IF AnalysisCommand("pr diff", repo.name, pr.number) \in fails THEN << >>
  ELSE pr.diff

\* the issues of one pull request: analyzeCode over the diff for every file
PrIssues(repo, pr, fails, t) ==
  LET diff == getPRDiff(repo, pr, fails)
      files == extractFilesFromDiff(diff)
  IN Flatten([i \in 1..Len(files) |->
                analyzeCode(diff, files[i], repo.name, pr.number, t)])

PrData(repo, pr, fails, t) ==
  [number |-> pr.number, title |-> pr.title, author |-> pr.author.login,
   createdAt |-> pr.createdAt, issues |-> PrIssues(repo, pr, fails, t)]

RepoData(repo, fails, t) ==
  LET prs == getOpenPRsForRepo(repo, fails)
      pullRequests == [i \in 1..Len(prs) |-> PrData(repo, prs[i], fails, t)]
  IN [name |-> repo.name, owner |-> repo.owner.login,
      lastUpdated |-> repo.updatedAt,
      prCount |-> Len(prs),
      pullRequests |-> pullRequests,
      issues |-> Flatten([i \in 1..Len(pullRequests) |->
                            pullRequests[i].issues])]

\* the number of issues the forEach of the summary counts under a key
CountIssues(repositories, field, key) ==
  LET all == Flatten([i \in 1..Len(repositories) |-> repositories[i].issues])
  IN Cardinality({ i \in 1..Len(all) : all[i][field] = key })

\* results.summary.totalIssues++ for every issue of every repository
TotalIssues(repositories) ==
  Len(Flatten([i \in 1..Len(repositories) |-> repositories[i].issues]))

RECURSIVE SumPrCount(_)
SumPrCount(repositories) ==
  IF repositories = << >> THEN 0
  ELSE Head(repositories).prCount + SumPrCount(Tail(repositories))

\* the results of runFullAnalysis
AnalysisResults(fails, t) ==
  LET repos == getAllRepositories(fails)
      repositories == [i \in 1..Len(repos) |-> RepoData(repos[i], fails, t)]
  IN [analysisId |-> t, timestamp |-> t,
      repositories |-> repositories,
      summary |->
        [totalRepositories |-> Len(repos),
         totalPRs |-> SumPrCount(repositories),
         totalIssues |-> TotalIssues(repositories),
         issuesBySeverity |->
           [s \in {"high", "medium", "low"} |->
              CountIssues(repositories, "severity", s)],
         issuesByType |->
           [ty \in { x.type : x \in
                       UNION { { r.issues[i] : i \in 1..Len(r.issues) } :
                                 r \in { repositories[k] :
                                           k \in 1..Len(repositories) } } } |->
              CountIssues(repositories, "type", ty)]]]

\* JSON.stringify(results, null, 2), as far as the summary goes
StringifySummary(results) ==
  JObj(<< <<"analysisId", JNum(results.analysisId)>>,
          <<"timestamp", JNum(results.timestamp)>>,
          <<"repositories",
            JArr([k \in 1..Len(results.repositories) |->
                    JObj(<< <<"name", JStr(results.repositories[k].name)>>,
                            <<"issues",
                              JNum(Len(results.repositories[k].issues))>> >>)])>>,
          <<"summary",
            JObj(<< <<"totalRepositories",
                      JNum(results.summary.totalRepositories)>>,
                    <<"totalPRs", JNum(results.summary.totalPRs)>>,
                    <<"totalIssues", JNum(results.summary.totalIssues)>> >>)>> >>)

\* the diffs gh pr diff prints: nothing; one file with one suspect line; two
\* files with a suspect line in the second and a removed one; one file with
\* a line two patterns find
AnalysisDiffs ==
  { << >>,
    Section("a.js") \o << HunkLine(1), TextLine("+", << "password" >>) >>,
    Section("a.js") \o << HunkLine(1), TextLine("+", << "x" >>) >>
      \o Section("b.sql")
      \o << HunkLine(5), TextLine("-", << "eval(" >>),
            TextLine("+", << "SELECT * FROM" >>) >>,
    Section("a.js")
      \o << HunkLine(3), TextLine(" ", << "x" >>),
            TextLine("+", << "PASSWORD", "eval(" >>) >> }

OpenPr(n, diff) ==
  [number |-> n, title |-> "t", author |-> [login |-> "alice"],
   createdAt |-> 0, diff |-> diff]

AnalysedRepo(name, diffs) ==
  [name |-> name, owner |-> [login |-> "h1-aot"], updatedAt |-> 0,
   prs |-> [n \in 1..Len(diffs) |-> OpenPr(n, diffs[n])]]

\* what GitHub holds of h1-aot: one repository with at most MaxAnalysedPRs
\* open pull requests, and perhaps a second with one
AnalysisWorlds ==
  LET first == { AnalysedRepo("aot-base", diffs) :
                   diffs \in UNION { [1..n -> AnalysisDiffs] :
                                       n \in 0..MaxAnalysedPRs } }
      second == AnalysedRepo("aot-tools",
                  << Section("a.js")
                       \o << HunkLine(1), TextLine("+", << "USER root" >>) >> >>)
  IN { [repos |-> << r >>] : r \in first }
       \cup { [repos |-> << r, second >>] : r \in first }

\* the commands one run issues
AnalysisCommands ==
  { AnalysisCommand("repo list", "", 0) }
  \cup { AnalysisCommand("pr list", gh.repos[k].name, 0) :
           k \in 1..Len(gh.repos) }
  \cup UNION { { AnalysisCommand("pr diff", gh.repos[k].name,
                                 gh.repos[k].prs[n].number) :
                   n \in 1..Len(gh.repos[k].prs) } : k \in 1..Len(gh.repos) }

\* node code-analysis-runner.js: one run, with the commands that fail in it;
\* the results are returned and written to analysis-results/latest.json
RunFullAnalysis ==
  /\ ~verdict.done
  /\ \E fails \in RouteFailures(AnalysisCommands) :
       /\ \E results \in {AnalysisResults(fails, now)} :
            verdict' = [done |-> TRUE,
                        result |-> [returned |-> results,
                                    latest |-> FileOf(StringifySummary(results))],
                        calls |-> {}]
       /\ errors' = [by |-> "analysis", lines |-> fails]
  /\ resp' = NoResponse
  /\ UNCHANGED << body, now, gh, prDataFile, lastUpdateFile, pc, allData,
                  writer, sched >>

InitAnalysis ==
  /\ body = Null
  /\ verdict = NotCalled
  /\ gh \in AnalysisWorlds
  /\ InitFiles
  /\ sched = NoSchedule

NextAnalysis == RunFullAnalysis

SpecAnalysis == InitAnalysis /\ [][NextAnalysis]_vars

\* ------------------------------------------------------------------ claims
\* the five pattern groups in the order of their priority
GroupOrder == << "high", "medium", "low", "question", "request" >>

GroupPatterns(g) ==
  CASE g = "high"     -> highSeverityPatterns
    [] g = "medium"   -> mediumSeverityPatterns
    [] g = "low"      -> lowSeverityPatterns
    [] g = "question" -> questionPatterns
    [] OTHER          -> requestPatterns

GroupVerdict(g) ==
  CASE g = "high"     -> Verdict("fix_required", "high")
    [] g = "medium"   -> Verdict("improvement_needed", "medium")
    [] g = "low"      -> Verdict("suggestion", "low")
    [] g = "question" -> Verdict("question", "medium")
    [] OTHER          -> Verdict("request", "medium")

\* the positions in GroupOrder of the groups with a pattern that matches the
\* lower-cased text
MatchingGroups(text) ==
  { k \in 1..Len(GroupOrder) :
      \E j \in 1..Len(GroupPatterns(GroupOrder[k])) :
        PatternTest(GroupPatterns(GroupOrder[k])[j], toLowerCase(text)) }

\* C1: on a non-empty body the classifier tests the groups high, medium, low,
\* question, request in that order against the lower-cased text, and the
\* verdict is the one of the first group that matches, whatever later groups
\* match as well.
C1_FirstMatchingGroupDecides ==
  (verdict.done /\ body # Null /\ body # <<>> /\ MatchingGroups(body) # {})
    => LET first == CHOOSE k \in MatchingGroups(body) :
                      \A j \in MatchingGroups(body) : k <= j
       IN verdict.result = GroupVerdict(GroupOrder[first])

\* a body in capitals that matches the medium and the question group, not the
\* high group, has been classified as improvement_needed
C1_Witness ==
  /\ verdict.done
  /\ body # Null
  /\ body # toLowerCase(body)
  /\ {2, 4} \subseteq MatchingGroups(body)
  /\ 1 \notin MatchingGroups(body)
  /\ verdict.result = Verdict("improvement_needed", "medium")

\* the repositories of a snapshot, and the pull requests it holds for one
InSnapshot(data, repoName) ==
  \E k \in 1..Len(data.repositories) :
    FullName(data.repositories[k].owner, data.repositories[k].name) = repoName

SnapshotPrs(data, repoName) ==
  UNION { { data.repositories[k].pullRequests[j].number :
              j \in 1..Len(data.repositories[k].pullRequests) } :
          k \in { i \in 1..Len(data.repositories) :
                    FullName(data.repositories[i].owner,
                             data.repositories[i].name) = repoName } }

\* a pull request on GitHub with a comment the refresh counts
HasActionable(pr) ==
  \/ \E k \in 1..Len(pr.reviewComments) :
       isCommentActionable(pr.reviewComments[k].body).actionable
  \/ \E k \in 1..Len(pr.comments) :
       isCommentActionable(pr.comments[k].body).actionable
  \/ \E k \in 1..Len(pr.reviews) :
       /\ pr.reviews[k].state # "COMMENTED"
       /\ isCommentActionable(pr.reviews[k].body).actionable

\* the pull requests of a repository that a refresh at time t reports when
\* none of its calls fails
ActionablePrs(repoName, t) ==
  { Listed(repoName)[k].number :
      k \in { i \in 1..Len(Listed(repoName)) :
                /\ Listed(repoName)[i].createdAt >= t - ThirtyDays
                /\ HasActionable(Listed(repoName)[i]) } }

ExpectedPrs(repoName, t) ==
  IF gh[repoName].pushedAt >= t - ThirtyDays
  THEN ActionablePrs(repoName, t) ELSE {}

\* the repositories the catch sites' lines of the last step name
FailedRepos == { l.repo : l \in errors.lines }

\* C2: no failure of a CLI call leaves fetchAllData.  When the metadata fetch
\* or the pull request listing of one configured repository fails, that
\* repository is skipped, the refresh goes on to its writes, and the snapshot
\* it returns and persists holds for every other configured repository exactly
\* what that repository has to report.
C2_FailuresStayInside ==
  \A p \in Procs :
    /\ errors.by = p =>
         /\ pc[p] = "open data"
         /\ \A l \in errors.lines :
              l.site \in {"accessing repository", "processing"}
                => ~InSnapshot(allData[p], l.repo)
         /\ \A r \in RepoNames \ FailedRepos :
              /\ SnapshotPrs(allData[p], r)
                   = ExpectedPrs(r, allData[p].lastUpdate)
              /\ InSnapshot(allData[p], r)
                   <=> ExpectedPrs(r, allData[p].lastUpdate) # {}
    /\ (pc[p] \in {"open meta", "write meta", "returned"} /\ writer.data = p)
         => loadCachedData = Returns(allData[p])

\* the metadata fetch or the listing of one repository failed, and the
\* snapshot holds the other repository with its pull request
C2_Witness ==
  /\ errors.by = "cli"
  /\ pc["cli"] = "open data"
  /\ \E l \in errors.lines :
       /\ l.site \in {"accessing repository", "processing"}
       /\ ExpectedPrs(l.repo, allData["cli"].lastUpdate) # {}
       /\ \E r \in RepoNames \ {l.repo} :
            /\ InSnapshot(allData["cli"], r)
            /\ SnapshotPrs(allData["cli"], r) # {}

\* C3: a refresh replaces both cache files atomically: at every instant the
\* two files are both from before the refresh or both from it.
C3_AtomicReplacement == writer.data = writer.meta

\* a process may call fetchAllData, and take each step of a call, whatever
\* the other processes are doing
StepsEnabled(p) ==
  /\ pc[p] \in {"idle", "returned"} => CanFetch(p)
  /\ pc[p] = "open data" => ENABLED OpenData(p)
  /\ pc[p] = "write data" => ENABLED WriteData(p)
  /\ pc[p] = "open meta" => ENABLED OpenMeta(p)
  /\ pc[p] = "write meta" => ENABLED WriteMeta(p)

\* C4: nothing serialises the refreshes of the data-fetcher process and of the
\* web-server process: each can start a refresh and take each of its steps
\* wherever the other one stands, so their writes of the two files interleave.
C4_NothingSerialisesRefreshes ==
  StepsEnabled("fetcher") /\ StepsEnabled("server")

\* both refreshes have returned, and the data file is the fetcher's while the
\* metadata file is the server's, from another instant
C4_Witness ==
  /\ pc["fetcher"] = "returned"
  /\ pc["server"] = "returned"
  /\ writer = [data |-> "fetcher", meta |-> "server"]
  /\ ~loadCachedData.isNull
  /\ ~getLastUpdateInfo.isNull
  /\ loadCachedData.value.lastUpdate # getLastUpdateInfo.value.lastUpdate

\* a snapshot without an empty repository entry or pull request entry
NoEmptyEntries(data) ==
  \A k \in 1..Len(data.repositories) :
    /\ Len(data.repositories[k].pullRequests) >= 1
    /\ \A j \in 1..Len(data.repositories[k].pullRequests) :
         Len(data.repositories[k].pullRequests[j].actionableComments) >= 1

\* C5: every repository entry of a snapshot that fetchAllData built or wrote
\* has at least one pull request, and every pull request entry has at least
\* one actionable comment.
C5_NoEmptyEntries ==
  /\ \A p \in Procs : NoEmptyEntries(allData[p])
  /\ ~loadCachedData.isNull => NoEmptyEntries(loadCachedData.value)

\* a written snapshot holds a repository of which GitHub lists a recent pull
\* request without an actionable comment
C5_Witness ==
  /\ pc["cli"] = "returned"
  /\ ~loadCachedData.isNull
  /\ \E r \in RepoNames :
       /\ InSnapshot(loadCachedData.value, r)
       /\ \E k \in 1..Len(gh[r].prs) :
            /\ gh[r].prs[k].createdAt >= allData["cli"].lastUpdate - ThirtyDays
            /\ ~HasActionable(gh[r].prs[k])
            /\ gh[r].prs[k].number \notin SnapshotPrs(loadCachedData.value, r)

\* the pull request entries of a snapshot, and the comments they count
PrPositions(data) ==
  UNION { { <<k, j>> : j \in 1..Len(data.repositories[k].pullRequests) } :
          k \in 1..Len(data.repositories) }

CountedComments(data) ==
  UNION { { <<x[1], x[2], i>> :
              i \in 1..data.repositories[x[1]].pullRequests[x[2]]
                         .actionableCount } :
          x \in PrPositions(data) }

\* C6: the metadata a call of fetchAllData wrote carries the lastUpdate of the
\* snapshot the same call wrote, the number of its repository entries, the
\* number of pull request entries over all of them, and the sum of their
\* actionableCount.
C6_MetadataMatchesSnapshot ==
  \A p \in Procs :
    (pc[p] = "returned" /\ writer = [data |-> p, meta |-> p])
      => /\ ~getLastUpdateInfo.isNull
         /\ ~loadCachedData.isNull
         /\ LET m == getLastUpdateInfo.value
                d == loadCachedData.value
            IN /\ m.lastUpdate = d.lastUpdate
               /\ m.repositoryCount = Len(d.repositories)
               /\ m.totalPRs = Cardinality(PrPositions(d))
               /\ m.totalActionableComments = Cardinality(CountedComments(d))

\* the metadata written counts two repositories, three pull requests and
\* seven comments
C6_Witness ==
  /\ pc["cli"] = "returned"
  /\ getLastUpdateInfo =
       Returns([lastUpdate |-> 0, repositoryCount |-> 2, totalPRs |-> 3,
                totalActionableComments |-> 7])


\* C7: a configured repository whose pushedAt lies more than 30 days before
\* the refresh never appears in the snapshot, whatever its pull requests and
\* comments hold; a repository pushed to within the last 30 days, with no
\* failing call and a pull request to report, is in the snapshot.
C7_StalenessRule ==
  \A p \in Procs : pc[p] # "idle" =>
    \A r \in RepoNames :
      /\ gh[r].pushedAt < allData[p].lastUpdate - ThirtyDays
           => ~InSnapshot(allData[p], r)
      /\ ( /\ errors.by = p
           /\ r \notin FailedRepos
           /\ gh[r].pushedAt >= allData[p].lastUpdate - ThirtyDays
           /\ ActionablePrs(r, allData[p].lastUpdate) # {} )
           => InSnapshot(allData[p], r)

\* a refresh without a failure left out a repository pushed to one second
\* more than 30 days before it, although a pull request of it has actionable
\* comments
C7_Witness ==
  /\ errors = [by |-> "cli", lines |-> {}]
  /\ \E r \in RepoNames :
       /\ gh[r].pushedAt = (allData["cli"].lastUpdate - ThirtyDays) - 1
       /\ ActionablePrs(r, allData["cli"].lastUpdate) # {}
       /\ ~InSnapshot(allData["cli"], r)

ReadsFile(answer, file, text) ==
  /\ ~answer.threw
  /\ answer.isNull <=> (~file.exists \/ file.text = EmptyText)
  /\ ~answer.isNull => text = file.text

\* C9: loadCachedData and getLastUpdateInfo never throw and never change a
\* file: each hands back the parsed content of its file, or null when the
\* file is missing or cannot be read or parsed.
C9_ReadsNeverThrow ==
  /\ [](resp.sent =>
          /\ ReadsFile(resp.data, prDataFile, StringifyAllData(resp.data.value))
          /\ ReadsFile(resp.lastUpdate, lastUpdateFile,
                       StringifyMetadata(resp.lastUpdate.value)))
  /\ [][resp'.sent => UNCHANGED << prDataFile, lastUpdateFile >>]_vars

\* a read met the data file truncated and the metadata file missing, and
\* both answers were null
C9_Witness ==
  /\ resp.sent
  /\ prDataFile = FileOf(EmptyText)
  /\ lastUpdateFile = NoFile
  /\ resp.data = ReturnsNull
  /\ resp.lastUpdate = ReturnsNull

\* C10: once a call of fetchAllData has returned, and as long as no other
\* write has touched the files, loadCachedData hands back a snapshot equal to
\* the one the call returned and getLastUpdateInfo the metadata it wrote.
C10_RoundTrip ==
  \A p \in Procs :
    (resp.sent /\ pc[p] = "returned" /\ writer = [data |-> p, meta |-> p])
      => /\ resp.data = Returns(allData[p])
         /\ resp.lastUpdate = Returns(UpdateMetadata(allData[p]))

\* the files were read after the fetcher's refresh returned a snapshot with a
\* repository in it, the server's earlier refresh overwritten
C10_Witness ==
  /\ resp.sent
  /\ pc["fetcher"] = "returned"
  /\ writer = [data |-> "fetcher", meta |-> "fetcher"]
  /\ pc["server"] = "returned"
  /\ allData["fetcher"].repositories # <<>>
  /\ allData["server"] # allData["fetcher"]
  /\ resp.data = Returns(allData["fetcher"])


\* the active window, Monday to Friday from 09:00 to 18:00, the end excluded
InWindow(clock) ==
  /\ getDay(clock) \notin {0, 6}
  /\ 9 <= getHours(clock)
  /\ getHours(clock) < 18

\* the automatic refreshes a state remembers: the last one and the one that
\* preceded the last periodic one
RememberedStarts ==
  { st \in {sched.lastStart, sched.prevStart} : st.kind # "none" }

\* C11: an automatic refresh, the immediate one at process start or a
\* periodic one, is started only on Monday to Friday at an hour from 9 to 17;
\* none is started on Saturday or Sunday, before 09:00, or at or after 18:00.
C11_AutomaticOnlyInWindow ==
  \A st \in RememberedStarts : InWindow(st.at)

\* the callback of Friday 18:00 has run, and the last refresh is still the
\* one of 15:00
C11_Witness ==
  /\ sched.lastStart = [kind |-> "periodic", at |-> At(5, 15, 0)]
  /\ sched.clock = At(5, 18, 0)
  /\ sched.due = At(5, 18, 1)

\* C12: the interval callback starts a refresh only in a minute inside the
\* active window with hour mod 3 = 0 and minute = 0, and two periodic
\* refreshes are never started at the same 3-hour boundary.
C12_PeriodicOncePerBoundary ==
  /\ \A st \in RememberedStarts : st.kind = "periodic" =>
       /\ InWindow(st.at)
       /\ getHours(st.at) \in {9, 12, 15}
       /\ getMinutes(st.at) = 0
  /\ (sched.lastStart.kind = "periodic" /\ sched.prevStart.kind = "periodic")
       => sched.prevStart.at + 3 * 60 <= sched.lastStart.at

\* the periodic refreshes of Monday 09:00 and 12:00 have been started, with
\* every callback in between starting none
C12_Witness ==
  /\ sched.prevStart = [kind |-> "periodic", at |-> At(1, 9, 0)]
  /\ sched.lastStart = [kind |-> "periodic", at |-> At(1, 12, 0)]

\* C13: once startScheduledFetcher has run, exactly one immediate refresh was
\* started if the start time is inside the active window and none otherwise,
\* and in both cases the interval is armed and stays armed, a minute ahead at
\* most, whatever became of the immediate refresh.
C13_StartThenSchedule ==
  sched.phase # "down" =>
    /\ sched.phase = "up"
    /\ sched.initial = (IF InWindow(sched.t0) THEN 1 ELSE 0)
    /\ \A st \in RememberedStarts : st.kind = "initial" => st.at = sched.t0
    /\ sched.initial = 0 =>
         \A st \in RememberedStarts : st.kind # "initial"
    /\ sched.t0 < sched.due
    /\ sched.due <= sched.clock + 1

\* the immediate refresh failed at its first write, so that no data file
\* exists, and the callback has started the next periodic refresh
C13_Witness ==
  /\ sched.prevStart.kind = "initial"
  /\ sched.lastStart.kind = "periodic"
  /\ pc["fetcher"] = "open data"
  /\ prDataFile = NoFile

\* a 3-hour boundary of a workday
IsBoundary(clock) ==
  /\ InWindow(clock)
  /\ getHours(clock) \in {9, 12, 15}
  /\ getMinutes(clock) = 0

\* C14: while the fetcher process runs, a refresh is started at every 3-hour
\* boundary inside the window: when the minute of a boundary has passed, a
\* refresh was started in it, whatever the start time of the process and
\* however long earlier refreshes took.
C14_EveryBoundaryRefreshed ==
  (sched.phase = "up" /\ sched.t0 < sched.clock /\ IsBoundary(sched.clock - 1))
    => (sched.lastStart.kind # "none" /\ sched.lastStart.at = sched.clock - 1)

\* C15: a manual trigger, POST /api/fetch-data or --fetch-now, may call
\* fetchAllData at any local time, inside or outside the active window, and
\* wherever another refresh stands.
C15_ManualAnyTime ==
  /\ pc["cli"] = "idle" => CanFetch("cli")
  /\ pc["server"] \in {"idle", "returned", "rejected"} => CanFetch("server")

\* POST /api/fetch-data has called fetchAllData outside the active window
\* while the refresh of a --fetch-now run is between its two writes
C15_Witness ==
  /\ ~InWindow(sched.clock)
  /\ errors.by = "server"
  /\ pc["server"] = "open data"
  /\ pc["cli"] = "open meta"


\* the pull request entries of a snapshot, each next to the pull request on
\* GitHub it was made from
SnapshotPrEntries(data) ==
  { [entry |-> data.repositories[x[1]].pullRequests[x[2]],
     source |-> PrOf(FullName(data.repositories[x[1]].owner,
                              data.repositories[x[1]].name),
                     data.repositories[x[1]].pullRequests[x[2]].number)] :
    x \in PrPositions(data) }

\* the surviving repositories of the refresh of the last step
Surviving(p) ==
  { r \in RepoNames \ FailedRepos :
      gh[r].pushedAt >= allData[p].lastUpdate - ThirtyDays }

\* the pull requests that the refresh of the last step went through with all
\* their fetches succeeding, and that it left out of its snapshot
LeftOut(p) ==
  UNION { { Listed(r)[k] :
              k \in { i \in 1..Len(Listed(r)) :
                        /\ Listed(r)[i].createdAt
                             >= allData[p].lastUpdate - ThirtyDays
                        /\ Listed(r)[i].number
                             \notin SnapshotPrs(allData[p], r) } } :
          r \in Surviving(p) }

\* the reviews of a pull request that have to contribute an entry
ContributingReviews(pr) ==
  { pr.reviews[k].id :
      k \in { i \in 1..Len(pr.reviews) :
                /\ pr.reviews[i].body # <<>>
                /\ pr.reviews[i].state # "COMMENTED"
                /\ isCommentActionable(pr.reviews[i].body).actionable } }

\* the reviews among the entries of a pull request entry
ReviewEntries(entry) ==
  { entry.actionableComments[k].id :
      k \in { i \in 1..Len(entry.actionableComments) :
                entry.actionableComments[i].type = "review" } }

\* C16: a review contributes an entry to the actionable comments of its pull
\* request if and only if its body is non-empty, its state is not COMMENTED
\* and its body is classified actionable; no entry is a COMMENTED review.
C16_ReviewFilter ==
  \A p \in Procs : pc[p] # "idle" =>
    /\ \A x \in SnapshotPrEntries(allData[p]) :
         /\ ReviewEntries(x.entry) = ContributingReviews(x.source)
         /\ \A k \in 1..Len(x.entry.actionableComments) :
              x.entry.actionableComments[k].type = "review"
                => x.entry.actionableComments[k].state # "COMMENTED"
    /\ errors.by = p =>
         \A pr \in LeftOut(p) : ContributingReviews(pr) = {}

\* a snapshot holds pull request 1 with the review that requests changes and
\* without the COMMENTED review, whose body matches a high pattern
C16_Witness ==
  /\ pc["cli"] = "returned"
  /\ \E x \in SnapshotPrEntries(allData["cli"]) :
       /\ x.source = PullRequest(1)
       /\ isCommentActionable(rvCommented.body).actionable
       /\ ReviewEntries(x.entry) = {rvChanges.id}

\* what the entries of a pull request have to be: for every fetched comment
\* the classifier marks actionable and every contributing review, its id,
\* tag and body with the classifier's verdict on that body
ExpectedEntries(pr) ==
  { << pr.reviewComments[k].id, "review_comment", pr.reviewComments[k].body,
       isCommentActionable(pr.reviewComments[k].body) >> :
      k \in { i \in 1..Len(pr.reviewComments) :
                isCommentActionable(pr.reviewComments[i].body).actionable } }
  \cup
  { << pr.comments[k].id, "general_comment", pr.comments[k].body,
       isCommentActionable(pr.comments[k].body) >> :
      k \in { i \in 1..Len(pr.comments) :
                isCommentActionable(pr.comments[i].body).actionable } }
  \cup
  { << pr.reviews[k].id, "review", pr.reviews[k].body,
       isCommentActionable(pr.reviews[k].body) >> :
      k \in { i \in 1..Len(pr.reviews) :
                pr.reviews[i].id \in ContributingReviews(pr) } }

RetainedEntries(entry) ==
  { << entry.actionableComments[k].id, entry.actionableComments[k].type,
       entry.actionableComments[k].body,
       Verdict(entry.actionableComments[k].actionType,
               entry.actionableComments[k].severity) >> :
      k \in 1..Len(entry.actionableComments) }

\* C17: when the three fetches of a pull request succeed, its actionable
\* comments are exactly the review comments and general comments the
\* classifier marks actionable and the reviews that pass the review filter,
\* each once, tagged by the fetch it came from and carrying the classifier's
\* type and severity for its own body; nothing else is retained.
C17_RetainedEntries ==
  \A p \in Procs : pc[p] # "idle" =>
    /\ \A x \in SnapshotPrEntries(allData[p]) :
         /\ RetainedEntries(x.entry) = ExpectedEntries(x.source)
         /\ Len(x.entry.actionableComments)
              = Cardinality(ExpectedEntries(x.source))
    /\ errors.by = p => \A pr \in LeftOut(p) : ExpectedEntries(pr) = {}

\* a pull request entry holds one entry of each tag, and the comment "lgtm"
\* fetched with them is not among them
C17_Witness ==
  /\ errors = [by |-> "cli", lines |-> {}]
  /\ \E x \in SnapshotPrEntries(allData["cli"]) :
       /\ { c[2] : c \in RetainedEntries(x.entry) }
            = {"review_comment", "general_comment", "review"}
       /\ \E k \in 1..Len(x.source.reviewComments) :
            /\ x.source.reviewComments[k] = rcNone
            /\ \A c \in RetainedEntries(x.entry) : c[1] # rcNone.id

\* the positions of the comments of one severity
OfSeverity(entry, severity) ==
  { k \in 1..Len(entry.actionableComments) :
      entry.actionableComments[k].severity = severity }

\* C18: for every pull request entry of a snapshot, actionableCount is the
\* length of actionableComments, each of the three severity counts is the
\* number of retained comments of that severity, and the three add up to
\* actionableCount.
C18_CountsPerPullRequest ==
  \A p \in Procs :
    \A x \in SnapshotPrEntries(allData[p]) :
      /\ x.entry.actionableCount = Len(x.entry.actionableComments)
      /\ x.entry.severityCounts.high
           = Cardinality(OfSeverity(x.entry, "high"))
      /\ x.entry.severityCounts.medium
           = Cardinality(OfSeverity(x.entry, "medium"))
      /\ x.entry.severityCounts.low
           = Cardinality(OfSeverity(x.entry, "low"))
      /\ x.entry.severityCounts.high + x.entry.severityCounts.medium
           + x.entry.severityCounts.low = x.entry.actionableCount

\* a pull request with three actionable comments among five fetched ones has
\* actionableCount 3 and one comment of each severity
C18_Witness ==
  \E x \in SnapshotPrEntries(allData["cli"]) :
    /\ Len(x.source.reviewComments) + Len(x.source.comments)
         + Len(x.source.reviews) = 5
    /\ x.entry.actionableCount = 3
    /\ x.entry.severityCounts = [high |-> 1, medium |-> 1, low |-> 1]

\* C19: a pull request is in the snapshot only if it was created at most 30
\* days before the refresh, and every pull request of a surviving repository
\* created within the last 30 days with an actionable comment is in it.
C19_RecentPullRequests ==
  \A p \in Procs : pc[p] # "idle" =>
    /\ \A x \in SnapshotPrEntries(allData[p]) :
         x.source.createdAt >= allData[p].lastUpdate - ThirtyDays
    /\ errors.by = p =>
         \A r \in Surviving(p) : \A k \in 1..Len(gh[r].prs) :
           /\ gh[r].prs[k].createdAt >= allData[p].lastUpdate - ThirtyDays
           /\ HasActionable(gh[r].prs[k])
           => gh[r].prs[k].number \in SnapshotPrs(allData[p], r)

\* C19, among the pull requests that gh pr list --limit 50 prints: a pull
\* request is in the snapshot only if it was created at most 30 days before
\* the refresh, and every listed pull request of a surviving repository
\* created within the last 30 days with an actionable comment is in it.
C19_RecentListedPullRequests ==
  \A p \in Procs : pc[p] # "idle" =>
    /\ \A x \in SnapshotPrEntries(allData[p]) :
         x.source.createdAt >= allData[p].lastUpdate - ThirtyDays
    /\ errors.by = p => \A pr \in LeftOut(p) : ~HasActionable(pr)

\* of a repository in the snapshot, the pull request created exactly 30 days
\* before the refresh is in it, and the one created a second earlier, which
\* has an actionable comment, is not
C19_Witness ==
  /\ errors = [by |-> "cli", lines |-> {}]
  /\ \E r \in RepoNames :
       /\ gh[r].prs = <<PullRequest(3), PullRequest(4)>>
       /\ HasActionable(PullRequest(3))
       /\ PullRequest(4).createdAt = allData["cli"].lastUpdate - ThirtyDays
       /\ SnapshotPrs(allData["cli"], r) = {4}


\* the pull requests of a repository that the refresh of the last step, by p,
\* computed: none when the repository was skipped or its metadata fetch or
\* listing failed, and else the listed recent ones with an actionable comment
\* whose fetches all succeeded
Computed(p, r) ==
  IF \/ gh[r].pushedAt < allData[p].lastUpdate - ThirtyDays
     \/ \E l \in errors.lines :
          l.repo = r /\ l.site \in {"accessing repository", "processing"}
  THEN {}
  ELSE ActionablePrs(r, allData[p].lastUpdate)
         \ { l.pr : l \in { m \in errors.lines : m.repo = r } }

\* C20: a refresh supersedes the persisted snapshot wholesale.  The snapshot
\* fetchAllData builds holds exactly the repositories and pull requests this
\* call computed, whatever the file held before, so none for a repository
\* that failed or was skipped in this call; and once the call has returned
\* the snapshot file, unless written again, holds that snapshot and no more.
C20_SupersededWholesale ==
  \A p \in Procs :
    /\ errors.by = p =>
         \A r \in RepoNames :
           /\ SnapshotPrs(allData[p], r) = Computed(p, r)
           /\ InSnapshot(allData[p], r) <=> Computed(p, r) # {}
    /\ (pc[p] = "returned" /\ writer.data = p) =>
         /\ prDataFile = FileOf(StringifyAllData(allData[p]))
         /\ loadCachedData = Returns(allData[p])

\* the server's refresh persisted both repositories; a second later the
\* second repository's last push is more than 30 days old, the fetcher's
\* refresh skips it, and the file it leaves holds the first repository only
C20_Witness ==
  /\ pc["server"] = "returned"
  /\ allData["server"].lastUpdate = 0
  /\ InSnapshot(allData["server"], reposToMonitor[2])
  /\ pc["fetcher"] = "returned"
  /\ allData["fetcher"].lastUpdate = 1
  /\ writer.data = "fetcher"
  /\ ~loadCachedData.isNull
  /\ InSnapshot(loadCachedData.value, reposToMonitor[1])
  /\ ~InSnapshot(loadCachedData.value, reposToMonitor[2])


\* the keywords of the high group, and the bodies in which one of them occurs
\* as a word or run of words, in any capitalisation
HighKeywords ==
  UNION { highSeverityPatterns[k] : k \in 1..Len(highSeverityPatterns) }

HasHighKeyword(text) ==
  \E i \in 1..Len(text) : \E j \in i..Len(text) :
    [k \in 1..(j - i + 1) |-> toLowerCaseTok(text[i + k - 1])] \in HighKeywords

\* C21: a body containing a keyword of the high group is classified
\* fix_required with severity high, whatever question mark or words of other
\* groups it contains besides.
C21_HighKeywordWins ==
  (verdict.done /\ body # Null /\ HasHighKeyword(body))
    => verdict.result = Verdict("fix_required", "high")

\* a body with the keyword in capitals, a question mark and a word of the
\* medium group has been classified high
C21_Witness ==
  /\ verdict.done
  /\ body = << "Should", "Fix", "?" >>
  /\ {1, 2, 4} \subseteq MatchingGroups(body)
  /\ verdict.result = Verdict("fix_required", "high")

\* C22: the classifier answers {actionable: false}, an object with no type and
\* no severity, exactly when the body is absent, empty or matches no pattern
\* of the five groups; every other answer is actionable.
C22_NotActionableExactly ==
  verdict.done =>
    /\ (DOMAIN verdict.result = {"actionable"} /\ ~verdict.result.actionable)
         <=> (body = Null \/ body = <<>> \/ MatchingGroups(body) = {})
    /\ verdict.result.actionable
         <=> DOMAIN verdict.result = {"actionable", "type", "severity"}

\* "lgtm" has been classified, and the answer is {actionable: false}
C22_Witness ==
  /\ verdict.done
  /\ body = << "lgtm" >>
  /\ verdict.result = [actionable |-> FALSE]


C24_LastUpdateNeverDecreases ==
  [][ \A p \in Procs :
        /\ (pc[p] = "open data" /\ pc'[p] = "write data"
              /\ ~loadCachedData.isNull)
             => allData[p].lastUpdate >= loadCachedData.value.lastUpdate
        /\ (pc[p] = "open meta" /\ pc'[p] = "write meta"
              /\ ~getLastUpdateInfo.isNull)
             => allData[p].lastUpdate >= getLastUpdateInfo.value.lastUpdate
    ]_vars


\* C25: within one Node process two invocations of fetchAllData never
\* interleave: while an invocation is between its start and its writes, its
\* continuation is the one queued microtask, so no timer callback and no
\* request handler runs and no other invocation is in progress; and an
\* invocation is over only with both cache files written.
C25_NoInterleaving ==
  sched.phase = "loop" =>
    /\ Cardinality(InProgress(sched)) <= 1
    /\ \A id \in InProgress(sched) : sched.micro = << id >>
    /\ (\E id \in 1..MaxInvocations : sched.inv[id].pos = "done")
         => (~loadCachedData.isNull /\ ~getLastUpdateInfo.isNull)

\* an invocation is at its await of getActionableComments with a timer
\* callback and a request both waiting for their turn, after an earlier
\* invocation that has run to its end
C25_Witness ==
  /\ sched.phase = "loop"
  /\ sched.tasks = {"timer", "post"}
  /\ sched.inv[1].pos = "done"
  /\ sched.inv[2].pos = "await comments"
  /\ sched.inv[3].pos = "not started"


\* C28: the classifier of the web server and the classifier of the data
\* fetcher are one function: on every body, the absent and the empty one
\* included, they return the same actionable flag, type and severity.
C28_SameClassifier ==
  verdict.done => verdict.result = server_isCommentActionable(body)

\* a body that only the last group of patterns matches has been classified
\* by the fetcher as the server classifies it, as a request
C28_Witness ==
  /\ verdict.done
  /\ body = << "implement" >>
  /\ MatchingGroups(body) = {5}
  /\ verdict.result = server_isCommentActionable(body)
  /\ verdict.result = Verdict("request", "medium")


\* whether the snapshot that loadCachedData returns holds what is asked for
CacheHolds(request) ==
  /\ ~loadCachedData.isNull
  /\ InSnapshot(loadCachedData.value, request.repo)
  /\ request.route = "comments"
       => request.number \in SnapshotPrs(loadCachedData.value, request.repo)

\* C26: the two GET routes try the cache first.  When loadCachedData returns
\* a snapshot that holds the requested repository (and pull request) and
\* use_cache is not 'false', the answer is built from the snapshot, with
\* fromCache true and the snapshot's lastUpdate, and no command is run; in
\* every other case the commands are run, and with a missing or unreadable
\* cache file the request fails only if a command fails.
C26_CacheFirst ==
  resp.sent =>
    IF CacheHolds(resp) /\ resp.useCache
    THEN /\ resp.answer.status = 200
         /\ resp.answer.fromCache = "true"
         /\ resp.answer.lastUpdate = loadCachedData.value.lastUpdate
         /\ resp.answer.ran = {}
         /\ resp.route = "prs" =>
              { resp.answer.prs[k].number : k \in 1..Len(resp.answer.prs) }
                = SnapshotPrs(loadCachedData.value, resp.repo)
         /\ resp.route = "comments" =>
              \E x \in SnapshotPrEntries(loadCachedData.value) :
                /\ x.entry.number = resp.number
                /\ resp.answer.actionableComments
                     = x.entry.actionableComments
    ELSE /\ resp.answer.fromCache # "true"
         /\ resp.answer.ran # {}
         /\ resp.answer.status = 500
              => \E c \in resp.answer.ran :
                   c \in resp.failed \/ ~PrExists(c.repo, c.pr)

\* the comments of pull request 1 were asked for with the cache file holding
\* it, and answered from the cache without a command
C26_Witness ==
  /\ resp.sent
  /\ resp.route = "comments"
  /\ resp.number = 1
  /\ resp.useCache
  /\ CacheHolds(resp)
  /\ resp.answer.fromCache = "true"
  /\ resp.answer.ran = {}
  /\ Len(resp.answer.actionableComments) = 3


\* C27: POST .../prs/:number/comments answers success if and only if the
\* comment was created: a request answered with an error status has posted no
\* comment, and a request answered with success has posted one.
C27_SuccessIffPosted ==
  [][ (resp'.sent /\ resp'.route = "post comment")
        => (resp'.answer.status = 200 <=> gh' # gh) ]_vars

\* a request with a body was answered with status 500, and the pull request
\* holds the comment it posted
C27_Witness ==
  /\ resp.sent
  /\ resp.route = "post comment"
  /\ resp.answer.status = 500
  /\ resp.answer.posted
  /\ \E k \in 1..Len(PrOf(resp.repo, resp.number).comments) :
       PrOf(resp.repo, resp.number).comments[k].author.login = "tool"


\* the file and line pairs the diff shows of the new version of the files:
\* the added and the context lines of its hunks, numbered from the hunk's start
FileOfLine(diff, k) ==
  LET heads == { h \in 1..k : diff[h].starts = "diff --git" }
  IN IF heads = {} THEN Null
     ELSE diff[CHOOSE h \in heads : \A g \in heads : g <= h].file

HunkOfLine(diff, k) ==
  LET hunks == { h \in 1..k : diff[h].starts = "@@" }
      heads == { h \in 1..k : diff[h].starts = "diff --git" }
  IN IF hunks = {} THEN 0
     ELSE LET last == CHOOSE h \in hunks : \A g \in hunks : g <= h
          IN IF \E g \in heads : g > last THEN 0 ELSE last

PresentLines(diff) ==
  { << FileOfLine(diff, k),
       diff[HunkOfLine(diff, k)].start - 1
         + Cardinality({ i \in HunkOfLine(diff, k)..k :
                           diff[i].starts \in {"+", " "} }) >> :
      k \in { i \in 1..Len(diff) :
                diff[i].starts \in {"+", " "} /\ HunkOfLine(diff, i) # 0 } }

\* the existing issues the claim keeps
C29_Kept(existing, fresh, diff) ==
  SelectSeq(existing,
    LAMBDA e : \/ \E j \in 1..Len(fresh) : IssueHash(fresh[j]) = IssueHash(e)
               \/ << e.fileName, e.fileLineNumber >> \in PresentLines(diff))

\* the fresh issues the claim adds
C29_Added(existing, fresh, diff) ==
  LET kept == C29_Kept(existing, fresh, diff)
      adds == { j \in 1..Len(fresh) :
                  /\ \A i \in 1..Len(kept) :
                       IssueHash(kept[i]) # IssueHash(fresh[j])
                  /\ \A i \in 1..(j - 1) :
                       IssueHash(fresh[i]) # IssueHash(fresh[j]) }
  IN SelectSeq([j \in 1..Len(fresh) |-> [at |-> j, issue |-> fresh[j]]],
               LAMBDA x : x.at \in adds)

C29_Expected(existing, fresh, diff, t) ==
  LET kept == C29_Kept(existing, fresh, diff)
      added == C29_Added(existing, fresh, diff)
  IN [i \in 1..Len(kept) |-> Merged(kept[i], "existing", "lastSeen", t)]
       \o [i \in 1..Len(added) |->
             Merged(added[i].issue, "new", "firstSeen", t)]

\* C29: the merge keeps, marked existing, exactly the existing issues whose
\* key occurs among the fresh issues or whose file and line are still present
\* in the current diff, and adds, marked new, exactly the fresh issues whose
\* key no kept or already added issue has.
C29_KeepsPresentAddsNew ==
  verdict.done
    => verdict.result
         = SortBySeverity(C29_Expected(body.existing, body.fresh, body.diff,
                                       now))

\* an existing issue at line 1 of a.js, absent from the fresh analysis, was
\* merged against a diff whose only hunk of a.js shows lines 10 and 11
C29_Witness ==
  /\ verdict.done
  /\ body.fresh = << >>
  /\ Len(body.existing) = 1
  /\ body.existing[1].fileLineNumber = 1
  /\ body.diff # << >>
  /\ << "a.js", 1 >> \notin PresentLines(body.diff)
  /\ \E m \in DOMAIN verdict.result["medium"] : m.status = "existing"

\* the issues the claim has a pull request produce: one for every added line
\* of a hunk and every pattern that finds it, in the file of the line's section
C30_Matches(diff) ==
  { << k, p >> \in (1..Len(diff)) \X (1..Len(allPatterns)) :
      /\ diff[k].starts = "+"
      /\ HunkOfLine(diff, k) # 0
      /\ AnalysisPatternTest(allPatterns[p], diff[k].text) }

C30_IssuesOfMatch(issues, diff, k, p) ==
  { i \in 1..Len(issues) :
      /\ issues[i].line = k
      /\ issues[i].message = allPatterns[p].message }

C30_PrAsClaimed(prData, diff) ==
  /\ \A m \in C30_Matches(diff) :
       \E i \in 1..Len(prData.issues) :
         /\ C30_IssuesOfMatch(prData.issues, diff, m[1], m[2]) = {i}
         /\ prData.issues[i].file = FileOfLine(diff, m[1])
  /\ Len(prData.issues) = Cardinality(C30_Matches(diff))

RECURSIVE C30_SumMatches(_)
C30_SumMatches(prs) ==
  IF prs = << >> THEN 0
  ELSE Cardinality(C30_Matches(Head(prs).diff)) + C30_SumMatches(Tail(prs))

\* C30: in a run of runFullAnalysis in which no command fails, every added
\* line of a pull request's diff that a pattern finds produces exactly one
\* issue per pattern, attributed to the file of its section; totalIssues is
\* the number of these matches over all pull requests, and the three counts
\* of issuesBySeverity sum to totalIssues.
C30_OneIssuePerMatch ==
  (verdict.done /\ errors.lines = {})
    => LET results == verdict.result.returned
       IN /\ \A r \in 1..Len(gh.repos) : \A n \in 1..Len(gh.repos[r].prs) :
               C30_PrAsClaimed(results.repositories[r].pullRequests[n],
                               gh.repos[r].prs[n].diff)
          /\ results.summary.totalIssues
               = C30_SumMatches(Flatten([r \in 1..Len(gh.repos) |->
                                           gh.repos[r].prs]))
          /\ results.summary.issuesBySeverity["high"]
               + results.summary.issuesBySeverity["medium"]
               + results.summary.issuesBySeverity["low"]
               = results.summary.totalIssues

\* a run without a failing command over a pull request whose diff has two
\* files and an added line that a pattern finds
C30_Witness ==
  /\ verdict.done
  /\ errors.lines = {}
  /\ \E r \in 1..Len(gh.repos) : \E n \in 1..Len(gh.repos[r].prs) :
       /\ Len(extractFilesFromDiff(gh.repos[r].prs[n].diff)) = 2
       /\ C30_Matches(gh.repos[r].prs[n].diff) # {}
       /\ verdict.result.returned.repositories[r].pullRequests[n].issues
            # << >>

=============================================================================
